---- MODULE Spec2Model ----
(***************************************************************************)
(* Account Daily Tracker: the browser client (static/js/app.js) and the    *)
(* ledger it talks to through the REST boundary.                           *)
(*                                                                         *)
(* Spec        renderAccounts / renderAccountCard over State.accounts,     *)
(*             State.filter and State.sortBy (filter buttons, sort select) *)
(* SpecBand    daysUntil, the renewal badge of the card and the renewal    *)
(*             class of the account detail modal                           *)
(* SpecLedger  the activity / note / snooze ledger behind the API object   *)
(*             and the touched_today value derived from it                 *)
(* SpecSince   daysSince and the last-activity label of the card           *)
(* SpecClock   getTodayStr (UTC) against the local day of daysSince and    *)
(*             daysUntil; a render pass card by card                       *)
(* SpecForm    the Log Activity form in front of the ledger                *)
(* SpecAsync   overlapping loadAccounts calls                              *)
(* SpecReload  every handler that changes data and the loadAccounts call   *)
(*             it owes, with fairness                                      *)
(* SpecQuick   the inline quick-log form and the modal, requests failing   *)
(* SpecCalls   the catch block of every API call site                      *)
(* SpecSync    handleSync / updateSyncStatus, with fairness                *)
(* SpecReset   checkDailyReset over the days the page is opened on         *)
(* SpecRequest API.request: status and body of the response                *)
(* SpecDetail  the detail modal and its loadAccountActivities calls        *)
(* SpecInline  the inline quick-log forms, their handlers split at await   *)
(* SpecRecord  the deal and contact forms: Add, Edit, close, submit        *)
(* SpecProgress updateProgress after the first loadAccounts                *)
(***************************************************************************)
EXTENDS Integers, Sequences, FiniteSets, TLC

VARIABLES
    State_accounts,         \* State.accounts: list of account records
    State_filter,           \* State.filter
    State_sortBy,           \* State.sortBy
    State_currentAccountId, \* State.currentAccountId (0 stands for null)
    grid,                   \* cards of #accounts-grid, in display order
    allDone,                \* #all-done is visible
    detailRenewal,          \* renewal class shown in #detail-renewal-info
    today,                  \* the local calendar day of the wall clock
    tz,                     \* daylight-saving rule of the local time zone
    gridDay,                \* day on which the grid was last rendered
    detailDay,              \* day on which the detail modal was last filled
    activities,             \* ledger: number of activities per <<account, date>>
    notes,                  \* ledger: number of notes per <<account, date>>
    snoozes,                \* ledger: set of snooze markers <<account, date>>
    records,                \* tasks, deals and contacts per account
    hour,                   \* the local hour of the day of the wall clock
    utcOffset,              \* hours the local time is ahead of UTC
    lastActiveDate,         \* localStorage item 'lastActiveDate' (NULL: unset)
    activityDate,           \* the activity date last sent or pre-filled
    passDays,               \* render pass: the day each card's clock read gave
    activityModal,          \* #activity-modal and the fields of #activity-form
    quickLog,               \* the inline quick-log form and State.quickLogAccountId
    toast,                  \* text of the notification shown last (<<>>: none)
    loads,                  \* the loadAccounts calls that have not finished
    lastError,              \* SpecCalls: the error a call site caught last
    listError,              \* text put in a list of the detail modal in place of its rows
    consoleError,           \* what console.error was called with last
    requestsSent,           \* requests sent for the last user action
    syncBtnDisabled,        \* #sync-btn is disabled
    badge,                  \* #unsynced-badge: in the document, hidden, its text
    syncPc,                 \* where handleSync stands: "idle", "run", "status"
    statusPending,          \* updateSyncStatus calls under way that nobody waits for
    unsynced,               \* server: number of rows not synced yet
    page,                   \* the page of the app: "closed" or "open"
    newDayNotice,           \* #new-day-notification is visible
    response,               \* API.request: the response fetch gave last
    result,                 \* API.request: how the promise it returned settled
    loading,                \* #loading is visible
    progress,               \* #touched-count, #total-count and the width of #progress-bar
    inlineForms,            \* the .quick-log-inline of each card: shown, input, placeholder
    State_quickLogAccountId,\* State.quickLogAccountId (0 stands for null)
    State_quickLogType,     \* State.quickLogType ("" stands for null)
    quickPosts,             \* the quick-log submissions whose handler has not finished
    detailOpen,             \* #account-modal is open
    activitiesList,         \* #activities-list: the account whose rows it shows
    listCalls,              \* the loadAccountActivities calls that have not finished
    recordForm,             \* #deal-form and #contact-form with their modals
    editCalls,              \* Edit clicks whose getDeals / getContacts is under way
    recordRequests          \* the create or update request the last submit has sent

renderVars == <<State_accounts, State_filter, State_sortBy, grid, allDone, gridDay>>
detailVars == <<State_currentAccountId, detailRenewal, detailDay>>
clockVars  == <<today, tz>>
ledgerVars == <<activities, notes, snoozes, records>>
wallVars   == <<hour, utcOffset>>
formVars   == <<activityModal, quickLog, toast>>
callVars   == <<lastError, listError, consoleError, requestsSent>>
syncVars   == <<syncBtnDisabled, badge, syncPc, statusPending, unsynced>>
resetVars  == <<page, newDayNotice>>
reqVars    == <<response, result>>
loadVars   == <<loading, progress>>
inlineVars == <<inlineForms, State_quickLogAccountId, State_quickLogType, quickPosts>>
listVars   == <<detailOpen, activitiesList, listCalls>>
recordVars == <<recordForm, editCalls, recordRequests>>
uiVars     == <<inlineVars, listVars, recordVars>>
viewVars   == <<reqVars, loadVars, uiVars>>
pageVars   == <<resetVars, viewVars>>
netVars    == <<loads, callVars, syncVars, pageVars>>
extVars    == <<wallVars, lastActiveDate, activityDate, passDays, formVars, netVars>>
vars == <<renderVars, detailVars, clockVars, ledgerVars, extVars>>

-----------------------------------------------------------------------------
(* Bounds of the model *)

MaxAccounts == 3        \* longest account list drawn for State.accounts
LastBandDay == 3        \* SpecBand: the clock stops after this day
MaxAhead == 62          \* SpecBand: renewal dates reach this far past LastBandDay
MaxDay == 2             \* SpecLedger: the ledger's dates are 0..MaxDay
MaxEntries == 2         \* SpecLedger: activities + notes + snooze markers
MaxRecords == 1         \* SpecLedger: tasks + deals + contacts

-----------------------------------------------------------------------------
(* Strings.  A string is a sequence of one-character strings; null and the *)
(* empty string are both <<>> (both are falsy in every test the code makes) *)

NULL == <<>>

Truthy(s) == s # NULL

Min(S) == CHOOSE x \in S : \A y \in S : x <= y

\* UTF-16 code unit of each character of the model's alphabet
CodeUnit(c) ==
    CASE c = " " -> 32 [] c = "-" -> 45
      [] c = "0" -> 48 [] c = "1" -> 49 [] c = "2" -> 50 [] c = "3" -> 51
      [] c = "4" -> 52 [] c = "5" -> 53 [] c = "6" -> 54 [] c = "7" -> 55
      [] c = "8" -> 56 [] c = "9" -> 57
      [] c = "A" -> 65 [] c = "B" -> 66
      [] c = "a" -> 97 [] c = "b" -> 98

IsUpper(c) == c \in {"A", "B"}

ToLowerChar(c) == CASE c = "A" -> "a" [] c = "B" -> "b" [] OTHER -> c

ToLowerCase(s) == [i \in 1..Len(s) |-> ToLowerChar(s[i])]

\* Three-way lexicographic comparison of two sequences of integers
LexCompare(u, v) ==
    LET n == IF Len(u) < Len(v) THEN Len(u) ELSE Len(v)
        diff == {i \in 1..n : u[i] # v[i]}
    IN  IF diff # {}
        THEN (IF u[Min(diff)] < v[Min(diff)] THEN -1 ELSE 1)
        ELSE IF Len(u) < Len(v) THEN -1
        ELSE IF Len(u) > Len(v) THEN 1
        ELSE 0

\* String.prototype.localeCompare under the default (root) collation:
\* the primary weights of the whole strings decide first (white space, then
\* punctuation, then digits, then letters, upper and lower case alike); only
\* when they are equal does case decide, lower case first.
PrimaryWeight(c) == CodeUnit(ToLowerChar(c))

TertiaryWeight(c) == IF IsUpper(c) THEN 1 ELSE 0

\* faulty variant: a plain comparison of code units (a.name < b.name)
CodeUnitCompare(x, y) ==
    LexCompare([i \in 1..Len(x) |-> CodeUnit(x[i])],
               [i \in 1..Len(y) |-> CodeUnit(y[i])])

\* String.prototype.localeCompare
LocaleCompare(x, y) ==
    LET p == LexCompare([i \in 1..Len(x) |-> PrimaryWeight(x[i])],
                        [i \in 1..Len(y) |-> PrimaryWeight(y[i])])
    IN  IF p # 0 THEN p
        ELSE LexCompare([i \in 1..Len(x) |-> TertiaryWeight(x[i])],
                        [i \in 1..Len(y) |-> TertiaryWeight(y[i])])

-----------------------------------------------------------------------------
(* Dates.  A calendar day is a day number; on the wire it is a fixed-width, *)
(* zero-padded string of decimal digits (YYYY-MM-DD in the program).        *)

Digits == <<"0", "1", "2", "3", "4", "5", "6", "7", "8", "9">>

DigitValue(c) == CodeUnit(c) - CodeUnit("0")

DateStr(d) == <<Digits[(d \div 10) + 1], Digits[(d % 10) + 1]>>

ParseDate(s) == DigitValue(s[1]) * 10 + DigitValue(s[2])

-----------------------------------------------------------------------------
(* The local clock.  tz = [day |-> k, shift |-> h]: the local midnights of *)
(* the days after day k lie h hours off the 24 hour raster (h = -1 after a *)
(* spring-forward transition during day k, +1 after a fall-back, 0 in a    *)
(* zone without daylight saving).  Time is counted in hours.               *)

HoursPerDay == 24

NoDst == [day |-> 0, shift |-> 0]

TzRules == {NoDst} \cup {[day |-> k, shift |-> h] : k \in {2, 40}, h \in {-1, 1}}

\* new Date(dateStr + 'T00:00:00') and today.setHours(0, 0, 0, 0)
LocalMidnight(d, zone) == HoursPerDay * d + (IF d > zone.day THEN zone.shift ELSE 0)

\* daysUntil(dateStr); a number n is returned as <<n>>, null as NULL
daysUntil(dateStr, now, zone) ==
    IF ~Truthy(dateStr) THEN NULL
    ELSE <<(LocalMidnight(ParseDate(dateStr), zone) - LocalMidnight(now, zone))
              \div HoursPerDay>>

\* daysSince(dateStr); a number n is returned as <<n>>, null as NULL
daysSince(dateStr, now, zone) ==
    IF ~Truthy(dateStr) THEN NULL
    ELSE <<(LocalMidnight(now, zone) - LocalMidnight(ParseDate(dateStr), zone))
              \div HoursPerDay>>

\* the hours since the start of UTC day 0 at local hour h of local day d, in a
\* zone off hours ahead of UTC
UtcHours(d, h, off) == HoursPerDay * d + h - off

\* getTodayStr(): toISOString() is the UTC reading of the clock, of which the
\* part before 'T' is kept
getTodayStr(d, h, off) == DateStr(UtcHours(d, h, off) \div HoursPerDay)

-----------------------------------------------------------------------------
(* Account cards *)

UrgentDays == 30
WarningDays == 60

\* faulty variant: day 30 is no longer urgent, day 60 no longer warning
RenewalBadgeStrict(account, now, zone) ==
    IF Truthy(account.renewal_date)
    THEN LET daysLeft == daysUntil(account.renewal_date, now, zone)
         IN  IF daysLeft # NULL
             THEN (IF daysLeft[1] < 0 THEN "renewal-overdue"
                   ELSE IF daysLeft[1] < UrgentDays THEN "renewal-urgent"
                   ELSE IF daysLeft[1] < WarningDays THEN "renewal-warning"
                   ELSE "renewal-safe")
             ELSE ""
    ELSE ""

\* the renewal badge of renderAccountCard ("" when the card has none)
RenewalBadge(account, now, zone) ==
    IF Truthy(account.renewal_date)
    THEN LET daysLeft == daysUntil(account.renewal_date, now, zone)
         IN  IF daysLeft # NULL
             THEN (IF daysLeft[1] < 0 THEN "renewal-overdue"
                   ELSE IF daysLeft[1] <= UrgentDays THEN "renewal-urgent"
                   ELSE IF daysLeft[1] <= WarningDays THEN "renewal-warning"
                   ELSE "renewal-safe")
             ELSE ""
    ELSE ""

FreshDays == 3
AgingDays == 7

\* daysText of the card; `${days}d ago` is [text |-> "d ago", n |-> days]
DaysText(days) ==
    IF days = NULL THEN [text |-> "No activity", n |-> NULL]
    ELSE IF days[1] = 0 THEN [text |-> "Today", n |-> NULL]
    ELSE IF days[1] = 1 THEN [text |-> "Yesterday", n |-> NULL]
    ELSE [text |-> "d ago", n |-> days]

\* daysColor of the card
DaysColor(days) ==
    IF days = NULL THEN "text-muted"
    ELSE IF days[1] = 0 THEN "accent-green"
    ELSE IF days[1] = 1 THEN "accent-green"
    ELSE IF days[1] <= FreshDays THEN "accent-green"
    ELSE IF days[1] <= AgingDays THEN "accent-amber"
    ELSE "accent-red"

renderAccountCard(account, now, zone) ==
    [id           |-> account.id,
     daysText     |-> DaysText(daysSince(account.last_activity_date, now, zone)),
     daysColor    |-> DaysColor(daysSince(account.last_activity_date, now, zone)),
     touchedClass |-> account.touched_today,
     renewalBadge |-> RenewalBadge(account, now, zone),
     snoozeButton |-> ~account.touched_today]

\* the renewal class of openAccountDetail ("" for 'No renewal date set')
DetailRenewalClass(account, now, zone) ==
    IF Truthy(account.renewal_date)
    THEN LET daysLeft == daysUntil(account.renewal_date, now, zone)[1]
         IN  IF daysLeft < 0 THEN "renewal-overdue"
             ELSE IF daysLeft <= UrgentDays THEN "renewal-urgent"
             ELSE IF daysLeft <= WarningDays THEN "renewal-warning"
             ELSE "renewal-safe"
    ELSE ""

-----------------------------------------------------------------------------
(* renderAccounts: filter, sort, all-done signal *)

Filters == {"all", "touched", "untouched"}

SortKeys == {"name", "touched", "tasks", "renewal", "pipeline"}

\* (x || 0) for a nullable number
OrZero(x) == IF x = NULL THEN 0 ELSE x[1]

\* faulty variant: the two filters swapped
KeepsSwapped(account, filter) ==
    IF filter = "touched" THEN ~account.touched_today
    ELSE IF filter = "untouched" THEN account.touched_today
    ELSE TRUE

\* the predicate of the two Array.prototype.filter calls
Keeps(account, filter) ==
    IF filter = "touched" THEN account.touched_today
    ELSE IF filter = "untouched" THEN ~account.touched_today
    ELSE TRUE

ApplyFilter(accounts, filter) ==
    SelectSeq(accounts, LAMBDA a : Keeps(a, filter))

\* faulty variant: accounts without a renewal date first
RenewalCompareNullFirst(a, b) ==
    IF ~Truthy(a.renewal_date) /\ ~Truthy(b.renewal_date) THEN 0
    ELSE IF ~Truthy(a.renewal_date) THEN -1
    ELSE IF ~Truthy(b.renewal_date) THEN 1
    ELSE LocaleCompare(a.renewal_date, b.renewal_date)

\* comparator of sort key 'renewal'
RenewalCompare(a, b) ==
    IF ~Truthy(a.renewal_date) /\ ~Truthy(b.renewal_date) THEN 0
    ELSE IF ~Truthy(a.renewal_date) THEN 1
    ELSE IF ~Truthy(b.renewal_date) THEN -1
    ELSE LocaleCompare(a.renewal_date, b.renewal_date)

\* faulty variant: touched accounts first
TouchedCompareTouchedFirst(a, b) ==
    IF a.touched_today = b.touched_today THEN 0
    ELSE IF a.touched_today THEN -1 ELSE 1

\* comparator of sort key 'touched'
TouchedCompare(a, b) ==
    IF a.touched_today = b.touched_today THEN 0
    ELSE IF a.touched_today THEN 1 ELSE -1

\* faulty variant: fewest open tasks first
TasksCompareAscending(a, b) == a.open_tasks - b.open_tasks

\* comparator of sort key 'tasks'
TasksCompare(a, b) == b.open_tasks - a.open_tasks

\* faulty variant: a missing pipeline value ranks above every value
PipelineCompareNullFirst(a, b) ==
    IF a.pipeline_value = NULL /\ b.pipeline_value = NULL THEN 0
    ELSE IF a.pipeline_value = NULL THEN -1
    ELSE IF b.pipeline_value = NULL THEN 1
    ELSE b.pipeline_value[1] - a.pipeline_value[1]

\* comparator of sort key 'pipeline'
PipelineCompare(a, b) == OrZero(b.pipeline_value) - OrZero(a.pipeline_value)

\* the comparator handed to Array.prototype.sort for each State.sortBy
Compare(sortBy, a, b) ==
    CASE sortBy = "name"     -> LocaleCompare(a.name, b.name)
      [] sortBy = "touched"  -> TouchedCompare(a, b)
      [] sortBy = "tasks"    -> TasksCompare(a, b)
      [] sortBy = "renewal"  -> RenewalCompare(a, b)
      [] sortBy = "pipeline" -> PipelineCompare(a, b)
      [] OTHER               -> 0

\* faulty variant: an unstable sort, equal elements change places
RECURSIVE InsertBeforeEqual(_, _, _)
InsertBeforeEqual(x, sorted, sortBy) ==
    IF sorted = <<>> THEN <<x>>
    ELSE IF Compare(sortBy, sorted[Len(sorted)], x) >= 0
         THEN Append(InsertBeforeEqual(x, SubSeq(sorted, 1, Len(sorted) - 1), sortBy),
                     sorted[Len(sorted)])
         ELSE Append(sorted, x)

\* Array.prototype.sort is a stable sort: an element moves in front of the
\* elements that compare greater than it and stays behind those that compare
\* equal or smaller.
RECURSIVE Insert(_, _, _)
Insert(x, sorted, sortBy) ==
    IF sorted = <<>> THEN <<x>>
    ELSE IF Compare(sortBy, sorted[Len(sorted)], x) > 0
         THEN Append(Insert(x, SubSeq(sorted, 1, Len(sorted) - 1), sortBy),
                     sorted[Len(sorted)])
         ELSE Append(sorted, x)

RECURSIVE ApplySort(_, _)
ApplySort(accounts, sortBy) ==
    IF accounts = <<>> THEN <<>>
    ELSE Insert(accounts[Len(accounts)],
                ApplySort(SubSeq(accounts, 1, Len(accounts) - 1), sortBy),
                sortBy)

\* the local array `accounts` of renderAccounts after filter and sort
VisibleAccounts(accounts, filter, sortBy) ==
    ApplySort(ApplyFilter(accounts, filter), sortBy)

\* faulty variant: the test for a non-empty State.accounts left out
ShowAllDoneIgnoringTotal(accounts, filter, sortBy) ==
    filter = "untouched" /\ Len(VisibleAccounts(accounts, filter, sortBy)) = 0

\* the condition under which #all-done is shown
ShowAllDone(accounts, filter, sortBy) ==
    /\ filter = "untouched"
    /\ Len(VisibleAccounts(accounts, filter, sortBy)) = 0
    /\ Len(accounts) > 0

GridCards(accounts, filter, sortBy, now, zone) ==
    IF ShowAllDone(accounts, filter, sortBy) THEN <<>>
    ELSE LET visible == VisibleAccounts(accounts, filter, sortBy)
         IN  [i \in 1..Len(visible) |-> renderAccountCard(visible[i], now, zone)]

\* faulty variant: filter and sort work on State.accounts itself
AccountsAfterRenderInPlace(accounts, filter, sortBy) ==
    VisibleAccounts(accounts, filter, sortBy)

\* State.accounts after renderAccounts: `[...State.accounts]` copies the array,
\* so neither filter nor sort reaches State.accounts
AccountsAfterRender(accounts, filter, sortBy) == accounts

renderAccounts(accounts, filter, sortBy) ==
    /\ grid' = GridCards(accounts, filter, sortBy, today', tz')
    /\ allDone' = ShowAllDone(accounts, filter, sortBy)
    /\ gridDay' = today'
    /\ State_accounts' = AccountsAfterRender(accounts, filter, sortBy)

\* index in State.accounts of the account State.accounts.find(a => a.id === id)
PositionOf(id) == CHOOSE i \in 1..Len(State_accounts) : State_accounts[i].id = id

-----------------------------------------------------------------------------
(* The account lists GET /api/accounts can answer with.  Every account is   *)
(* one of a few sample payloads, touched or not; the id is the position in  *)
(* the answer.                                                              *)

AccountProfiles ==
    { [name |-> <<"B">>,           open_tasks |-> 0, renewal_date |-> NULL,
       pipeline_value |-> NULL,  last_activity_date |-> NULL],
      [name |-> <<"A", "a">>,      open_tasks |-> 1, renewal_date |-> DateStr(9),
       pipeline_value |-> <<0>>, last_activity_date |-> DateStr(10)],
      [name |-> <<"A", "B">>,      open_tasks |-> 1, renewal_date |-> DateStr(10),
       pipeline_value |-> <<5>>, last_activity_date |-> DateStr(9)],
      [name |-> <<"A", " ", "b">>, open_tasks |-> 0, renewal_date |-> DateStr(9),
       pipeline_value |-> <<5>>, last_activity_date |-> DateStr(6)],
      [name |-> <<"A", "-", "b">>, open_tasks |-> 2, renewal_date |-> NULL,
       pipeline_value |-> <<0>>, last_activity_date |-> DateStr(1)] }

Account(id, profile, touched) ==
    [id             |-> id,
     name           |-> profile.name,
     touched_today  |-> touched,
     open_tasks     |-> profile.open_tasks,
     renewal_date   |-> profile.renewal_date,
     last_activity_date |-> profile.last_activity_date,
     pipeline_value |-> profile.pipeline_value]

AccountLists ==
    UNION { { [i \in 1..n |-> Account(i, p[i], t[i])] :
                p \in [1..n -> AccountProfiles], t \in [1..n -> BOOLEAN] } :
            n \in 0..MaxAccounts }

-----------------------------------------------------------------------------
(* The state the other specifications leave alone *)

DetailClosed ==
    /\ State_currentAccountId = 0
    /\ detailRenewal = ""
    /\ detailDay = 0

LedgerEmpty ==
    /\ activities = <<>>
    /\ notes = <<>>
    /\ snoozes = {}
    /\ records = <<>>

WallAtMidnightUtc ==
    /\ hour = 0
    /\ utcOffset = 0

\* the activity modal closed, no inline form shown, no notification
FormsIdle ==
    /\ activityModal = [open |-> FALSE, accountId |-> 0, date |-> NULL,
                        description |-> NULL]
    /\ quickLog = [accountId |-> 0, open |-> FALSE, text |-> NULL]
    /\ toast = <<>>

\* a JavaScript value as far as API.request looks at it: its type, its text
\* when it is a string or a number, and its own property 'error' (a sequence
\* of no or one value) when it is an object
Value(type, text, error) == [type |-> type, text |-> text, error |-> error]

Undefined == Value("undefined", "", <<>>)

\* fetch has given no response; no call of API.request has settled
NoResponse == [status |-> 0, body |-> ""]

NoResult == [kind |-> "none", value |-> Undefined, message |-> ""]

\* the progress display before updateProgress has run
NoProgress == [touched |-> 0, total |-> 0, width |-> [num |-> 0, den |-> 1]]

\* the page open, nothing on it beyond what the other groups describe
\* the two forms of the detail modal
RecordKindsOfForms == {"deal", "contact"}

\* a form of the page as loaded: its modal hidden, the hidden id field empty
\* (0).  clicked is the button the user clicked last to open the form.
NoForm == [open |-> FALSE, id |-> 0, accountId |-> 0, title |-> "", clicked |-> <<>>]

\* the .quick-log-inline of the card template
NoInlineForm == [shown |-> FALSE, text |-> NULL, placeholder |-> <<"What did you do?">>]

\* no inline form shown, the detail modal and the deal and contact modals
\* closed, none of their requests under way
UiIdle ==
    /\ inlineForms = <<>>
    /\ State_quickLogAccountId = 0
    /\ State_quickLogType = ""
    /\ quickPosts = <<>>
    /\ detailOpen = FALSE
    /\ activitiesList = [account |-> 0, failed |-> FALSE]
    /\ listCalls = <<>>
    /\ recordForm = [k \in RecordKindsOfForms |-> NoForm]
    /\ editCalls = <<>>
    /\ recordRequests = <<>>

PageIdle ==
    /\ UiIdle
    /\ page = "open"
    /\ newDayNotice = FALSE
    /\ response = NoResponse
    /\ result = NoResult
    /\ loading = FALSE
    /\ progress = NoProgress

\* no request under way
NetIdle ==
    /\ PageIdle
    /\ loads = <<>>
    /\ lastError = [n |-> 0, site |-> "", message |-> ""]
    /\ listError = <<>>
    /\ consoleError = <<>>
    /\ requestsSent = 0
    /\ syncBtnDisabled = FALSE
    /\ badge = [inDocument |-> TRUE, hidden |-> TRUE, text |-> 0]
    /\ syncPc = "idle"
    /\ statusPending = 0
    /\ unsynced = 0

ExtIdle ==
    /\ WallAtMidnightUtc
    /\ lastActiveDate = NULL
    /\ activityDate = NULL
    /\ passDays = <<>>
    /\ FormsIdle
    /\ NetIdle

-----------------------------------------------------------------------------
(* Spec: the dashboard after loadAccounts has stored an answer in           *)
(* State.accounts and rendered it, then the filter buttons and sort select  *)

Init ==
    /\ today = 10
    /\ tz = NoDst
    /\ State_filter = "untouched"
    /\ State_sortBy = "name"
    /\ State_accounts \in AccountLists
    /\ grid = GridCards(State_accounts, State_filter, State_sortBy, today, tz)
    /\ allDone = ShowAllDone(State_accounts, State_filter, State_sortBy)
    /\ gridDay = today
    /\ DetailClosed
    /\ LedgerEmpty
    /\ ExtIdle

\* click on a .filter-btn
FilterClick(f) ==
    /\ State_filter' = f
    /\ UNCHANGED State_sortBy
    /\ UNCHANGED <<detailVars, clockVars, ledgerVars, extVars>>
    /\ renderAccounts(State_accounts, State_filter', State_sortBy')

\* change of #sort-select
SortChange(k) ==
    /\ State_sortBy' = k
    /\ UNCHANGED State_filter
    /\ UNCHANGED <<detailVars, clockVars, ledgerVars, extVars>>
    /\ renderAccounts(State_accounts, State_filter', State_sortBy')

Next ==
    \/ \E f \in Filters : FilterClick(f)
    \/ \E k \in SortKeys : SortChange(k)

Spec == Init /\ [][Next]_vars

-----------------------------------------------------------------------------
(* Properties of the rendered grid (Spec) *)

GridIndex == 1..Len(grid)

\* the account a card was rendered from
AccountOf(card) == State_accounts[PositionOf(card.id)]

ShownIds == {grid[i].id : i \in GridIndex}

AccountIds == {State_accounts[i].id : i \in 1..Len(State_accounts)}

TouchedIds == {State_accounts[i].id : i \in {j \in 1..Len(State_accounts) :
                                              State_accounts[j].touched_today}}

LowerCodeUnits(name) == [i \in 1..Len(name) |-> CodeUnit(ToLowerCase(name)[i])]

\* C4: the grid shows every account under 'all', exactly the touched accounts
\* under 'touched' and exactly the untouched ones under 'untouched'; what it
\* shows is a subset of State.accounts and no account is shown twice.
C4_FilterKeepsExactly ==
    /\ ShownIds \subseteq AccountIds
    /\ Cardinality(ShownIds) = Len(grid)
    /\ State_filter = "all" => ShownIds = AccountIds
    /\ State_filter = "touched" => ShownIds = TouchedIds
    /\ State_filter = "untouched" => ShownIds = AccountIds \ TouchedIds
    /\ \A i \in GridIndex : grid[i].touchedClass = AccountOf(grid[i]).touched_today

C4_Witness ==
    /\ State_filter = "touched"
    /\ Len(grid) = 2
    /\ Len(State_accounts) = 3

\* C5: 'all done' is shown iff the filter is 'untouched', no account is
\* untouched and State.accounts is not empty; the grid is then empty; it is
\* shown neither for an empty account list nor under 'all' or 'touched'.
C5_AllDoneSignal ==
    /\ allDone <=> /\ State_filter = "untouched"
                   /\ AccountIds \ TouchedIds = {}
                   /\ Len(State_accounts) > 0
    /\ allDone => grid = <<>>
    /\ Len(State_accounts) = 0 => ~allDone
    /\ State_filter \in {"all", "touched"} => ~allDone

C5_Witness ==
    /\ allDone
    /\ Len(State_accounts) = 3
    /\ grid = <<>>

StableOrder ==
    \A i, j \in GridIndex :
        (i < j /\ Compare(State_sortBy, AccountOf(grid[i]), AccountOf(grid[j])) = 0)
            => PositionOf(grid[i].id) < PositionOf(grid[j].id)

C8_NameOrder ==
    State_sortBy = "name" =>
        \A i, j \in GridIndex :
            i < j => LexCompare(LowerCodeUnits(AccountOf(grid[j]).name),
                                LowerCodeUnits(AccountOf(grid[i]).name)) >= 0

C8_Witness ==
    /\ State_sortBy = "name"
    /\ \E i, j \in GridIndex :
          /\ i < j
          /\ CodeUnitCompare(AccountOf(grid[i]).name, AccountOf(grid[j]).name) > 0
          /\ PositionOf(grid[i].id) > PositionOf(grid[j].id)

\* C9: under sort key 'renewal' the accounts with a renewal date are displayed
\* in ascending date order and every account without one comes after them.
C9_RenewalOrder ==
    State_sortBy = "renewal" =>
        \A i, j \in GridIndex :
            i < j =>
                LET a == AccountOf(grid[i])
                    b == AccountOf(grid[j])
                IN  /\ (a.renewal_date # NULL /\ b.renewal_date # NULL)
                          => ParseDate(a.renewal_date) <= ParseDate(b.renewal_date)
                    /\ ~(a.renewal_date = NULL /\ b.renewal_date # NULL)

C9_Witness ==
    /\ State_sortBy = "renewal"
    /\ Len(grid) = 3
    /\ AccountOf(grid[3]).renewal_date = NULL
    /\ PositionOf(grid[3].id) = 1
    /\ AccountOf(grid[1]).renewal_date = DateStr(9)
    /\ AccountOf(grid[2]).renewal_date = DateStr(10)
    /\ PositionOf(grid[2].id) < PositionOf(grid[1].id)

\* C10: under sort key 'touched' every untouched account is displayed before
\* every touched one, and inside each group the order of State.accounts is kept.
C10_TouchedOrder ==
    State_sortBy = "touched" =>
        \A i, j \in GridIndex :
            i < j =>
                LET a == AccountOf(grid[i])
                    b == AccountOf(grid[j])
                IN  /\ ~(a.touched_today /\ ~b.touched_today)
                    /\ a.touched_today = b.touched_today
                          => PositionOf(a.id) < PositionOf(b.id)

C10_Witness ==
    /\ State_sortBy = "touched"
    /\ State_filter = "all"
    /\ Len(grid) = 3
    /\ ~AccountOf(grid[1]).touched_today
    /\ ~AccountOf(grid[2]).touched_today
    /\ AccountOf(grid[3]).touched_today
    /\ PositionOf(grid[3].id) = 1

\* C11: under sort key 'tasks' the cards stand in non-increasing order of
\* open_tasks.
C11_TasksOrder ==
    State_sortBy = "tasks" =>
        \A i, j \in GridIndex :
            i < j => AccountOf(grid[j]).open_tasks <= AccountOf(grid[i]).open_tasks

\* three cards under 'tasks' whose accounts arrived in increasing order of
\* open_tasks
C11_Witness ==
    /\ State_sortBy = "tasks"
    /\ Len(grid) = 3
    /\ Len(State_accounts) = 3
    /\ State_accounts[1].open_tasks < State_accounts[2].open_tasks
    /\ State_accounts[2].open_tasks < State_accounts[3].open_tasks
    /\ grid[1].id = 3

\* the pipeline value an account ranks with: 0 when it has none
RankedPipeline(account) ==
    IF account.pipeline_value = NULL THEN 0 ELSE account.pipeline_value[1]

\* C12: under sort key 'pipeline' the cards stand in non-increasing order of
\* pipeline_value, an account without a value ranking together with the
\* accounts whose value is 0 (the sort leaves them in arrival order).
C12_PipelineOrder ==
    State_sortBy = "pipeline" =>
        \A i, j \in GridIndex :
            i < j =>
                /\ RankedPipeline(AccountOf(grid[j])) <= RankedPipeline(AccountOf(grid[i]))
                /\ (RankedPipeline(AccountOf(grid[j])) = RankedPipeline(AccountOf(grid[i]))
                      => grid[i].id < grid[j].id)

\* under 'pipeline': an account without a value arrived first, one with a
\* positive value last, and an account with value 0 in between
C12_Witness ==
    /\ State_sortBy = "pipeline"
    /\ Len(grid) = 3
    /\ Len(State_accounts) = 3
    /\ State_accounts[1].pipeline_value = NULL
    /\ State_accounts[2].pipeline_value = <<0>>
    /\ State_accounts[3].pipeline_value = <<5>>
    /\ grid[1].id = 3 /\ grid[2].id = 1 /\ grid[3].id = 2

-----------------------------------------------------------------------------
(* SpecBand: one account with any renewal date, the card grid, the account  *)
(* detail modal and the clock                                               *)

BandDates == 0..(LastBandDay + MaxAhead)

BandAccounts ==
    { <<Account(1, [name |-> <<"A", "a">>, open_tasks |-> 0, renewal_date |-> r,
                    pipeline_value |-> NULL, last_activity_date |-> NULL], FALSE)>> :
        r \in {NULL} \cup {DateStr(d) : d \in BandDates} }

InitBand ==
    /\ today = 1
    /\ tz \in TzRules
    /\ State_filter = "untouched"
    /\ State_sortBy = "name"
    /\ State_accounts \in BandAccounts
    /\ grid = GridCards(State_accounts, State_filter, State_sortBy, today, tz)
    /\ allDone = ShowAllDone(State_accounts, State_filter, State_sortBy)
    /\ gridDay = today
    /\ DetailClosed
    /\ LedgerEmpty
    /\ ExtIdle

\* the clock passes local midnight
Midnight(lastDay) ==
    /\ today < lastDay
    /\ today' = today + 1
    /\ UNCHANGED <<tz, renderVars, detailVars, ledgerVars, extVars>>

\* loadAccounts with an unchanged answer: State.accounts is stored and rendered
ReloadAccounts ==
    /\ UNCHANGED <<State_filter, State_sortBy, detailVars, clockVars, ledgerVars, extVars>>
    /\ renderAccounts(State_accounts, State_filter, State_sortBy)

\* openAccountDetail(accountId), up to the request for the activities
openAccountDetail(accountId) ==
    /\ State_currentAccountId' = accountId
    /\ IF \E i \in 1..Len(State_accounts) : State_accounts[i].id = accountId
       THEN /\ detailRenewal' =
                  DetailRenewalClass(State_accounts[PositionOf(accountId)], today, tz)
            /\ detailDay' = today
       ELSE UNCHANGED <<detailRenewal, detailDay>>
    /\ UNCHANGED <<renderVars, clockVars, ledgerVars, extVars>>

NextBand ==
    \/ Midnight(LastBandDay)
    \/ ReloadAccounts
    \/ \E id \in 1..2 : openAccountDetail(id)

SpecBand == InitBand /\ [][NextBand]_vars

\* the band the claim assigns to a number of days until renewal
BandOf(n) ==
    IF n < 0 THEN "renewal-overdue"
    ELSE IF n <= 30 THEN "renewal-urgent"
    ELSE IF n <= 60 THEN "renewal-warning"
    ELSE "renewal-safe"

\* C6: a card's renewal badge is overdue for daysUntil < 0, urgent for 0..30,
\* warning for 31..60 and safe above 60, and the detail modal filled on the
\* same day as the grid shows the same band for the same account.
C6_RenewalBands ==
    /\ \A i \in GridIndex :
          LET a == AccountOf(grid[i])
          IN  a.renewal_date # NULL =>
                grid[i].renewalBadge = BandOf(daysUntil(a.renewal_date, gridDay, tz)[1])
    /\ \A i \in GridIndex :
          (detailDay = gridDay /\ grid[i].id = State_currentAccountId)
              => detailRenewal = grid[i].renewalBadge

C6_Witness ==
    /\ Len(grid) = 1
    /\ detailDay = gridDay
    /\ gridDay = 2
    /\ State_currentAccountId = grid[1].id
    /\ daysUntil(AccountOf(grid[1]).renewal_date, gridDay, tz) = <<31>>
    /\ grid[1].renewalBadge = "renewal-warning"
    /\ detailRenewal = "renewal-warning"

\* C14: daysUntil(renewal_date) is the exact calendar-day difference renewal
\* minus today (0 today, negative in the past) and null exactly when there is
\* no renewal date, also between days that are not all 24 hours long.
C14_ExactDayDifference ==
    \A i \in 1..Len(State_accounts) :
        LET renewal == State_accounts[i].renewal_date
        IN  daysUntil(renewal, today, tz) =
                IF renewal = NULL THEN NULL ELSE <<ParseDate(renewal) - today>>

-----------------------------------------------------------------------------
(* SpecSince: one account with any last activity date, up to MaxBack days   *)
(* before the first day of the run and up to a day past its last day        *)

MaxBack == 9
SinceDays == 2

SinceDates == 0..(MaxBack + SinceDays + 1)

SinceAccounts ==
    { <<Account(1, [name |-> <<"A", "a">>, open_tasks |-> 0, renewal_date |-> NULL,
                    pipeline_value |-> NULL, last_activity_date |-> l], FALSE)>> :
        l \in {NULL} \cup {DateStr(d) : d \in SinceDates} }

InitSince ==
    /\ today = MaxBack
    /\ tz \in TzRules
    /\ State_filter = "untouched"
    /\ State_sortBy = "name"
    /\ State_accounts \in SinceAccounts
    /\ grid = GridCards(State_accounts, State_filter, State_sortBy, today, tz)
    /\ allDone = ShowAllDone(State_accounts, State_filter, State_sortBy)
    /\ gridDay = today
    /\ DetailClosed
    /\ LedgerEmpty
    /\ ExtIdle

NextSince ==
    \/ Midnight(MaxBack + SinceDays)
    \/ ReloadAccounts
    \/ \E id \in 1..2 : openAccountDetail(id)

SpecSince == InitSince /\ [][NextSince]_vars

\* what the claim puts on the card for n calendar days since the last activity
LabelOf(n) ==
    IF n = 0 THEN [text |-> "Today", n |-> NULL]
    ELSE IF n = 1 THEN [text |-> "Yesterday", n |-> NULL]
    ELSE [text |-> "d ago", n |-> <<n>>]

ColorOf(n) ==
    IF n <= 3 THEN "accent-green" ELSE IF n <= 7 THEN "accent-amber" ELSE "accent-red"

\* the card of an account says what the claim says for the calendar days from
\* its last activity date to the day of the render
CardSaysDaysSince(card) ==
    LET last == AccountOf(card).last_activity_date
    IN  IF last = NULL
        THEN card.daysText.text = "No activity"
        ELSE /\ card.daysText = LabelOf(gridDay - ParseDate(last))
             /\ card.daysColor = ColorOf(gridDay - ParseDate(last))

\* C15: daysSince is null exactly when there is no last activity date, else
\* the whole number of calendar days from that date to today (negative for a
\* date in the future); the card says 'Today' for 0, 'Yesterday' for 1 and
\* '<n>d ago' otherwise, green for n <= 3, amber for 4..7, red above 7.
C15_DaysSinceLabel == \A i \in GridIndex : CardSaysDaysSince(grid[i])

\* the same in a zone without daylight saving
DaysSinceLabelNoDst == tz = NoDst => \A i \in GridIndex : CardSaysDaysSince(grid[i])

-----------------------------------------------------------------------------
(* SpecLedger: the ledger behind the REST boundary and the mutating calls   *)
(* of the API object.  The server stamps notes and snooze markers with its  *)
(* own day; an activity carries the activity_date the client sends.         *)

Roster == {1, 2}

Dates == 0..MaxDay

Slots == Roster \X Dates

RecordKinds == {"tasks", "deals", "contacts"}

RECURSIVE SumOver(_, _)
SumOver(f, S) ==
    IF S = {} THEN 0
    ELSE LET x == CHOOSE y \in S : TRUE IN f[x] + SumOver(f, S \ {x})

LedgerSize == SumOver(activities, Slots) + SumOver(notes, Slots) + Cardinality(snoozes)

RecordCount ==
    SumOver([p \in RecordKinds \X Roster |-> records[p[1]][p[2]]], RecordKinds \X Roster)

\* faulty variant: the date of the entries is not looked at
TouchedOnAnyDate(a, d) ==
    \E e \in Dates : activities[<<a, e>>] > 0 \/ notes[<<a, e>>] > 0 \/ <<a, e>> \in snoozes

\* faulty variant: yesterday's entries still count
TouchedCarriedOver(a, d) ==
    \E e \in {d, d - 1} \cap Dates :
        activities[<<a, e>>] > 0 \/ notes[<<a, e>>] > 0 \/ <<a, e>> \in snoozes

\* touched_today of account a as the Daily Status Engine derives it on day d
TouchedToday(a, d) ==
    \/ activities[<<a, d>>] > 0
    \/ notes[<<a, d>>] > 0
    \/ <<a, d>> \in snoozes

\* the touched_today fields of the answer to GET /api/accounts given on day d
AccountsAnswer(d) == [a \in Roster |-> [id |-> a, touched_today |-> TouchedToday(a, d)]]

InitLedger ==
    /\ today = 0
    /\ tz = NoDst
    /\ activities = [p \in Slots |-> 0]
    /\ notes = [p \in Slots |-> 0]
    /\ snoozes = {}
    /\ records = [k \in RecordKinds |-> [a \in Roster |-> 0]]
    /\ State_filter = "untouched"
    /\ State_sortBy = "name"
    /\ State_accounts = <<>>
    /\ grid = <<>>
    /\ allDone = FALSE
    /\ gridDay = 0
    /\ DetailClosed
    /\ ExtIdle

ClientUnchanged == UNCHANGED <<renderVars, detailVars, clockVars, extVars>>

\* faulty variant: a second snooze takes the marker away
SnoozeToggles(a) ==
    snoozes' = IF <<a, today>> \in snoozes THEN snoozes \ {<<a, today>>}
               ELSE snoozes \cup {<<a, today>>}

\* POST /api/accounts/{id}/snooze sets today's snooze marker
SetSnoozeMarker(a) == snoozes' = snoozes \cup {<<a, today>>}

\* API.activities.create({account_id, activity_type, description, activity_date})
API_activities_create(a, d) ==
    /\ LedgerSize < MaxEntries
    /\ activities' = [activities EXCEPT ![<<a, d>>] = @ + 1]
    /\ UNCHANGED <<notes, snoozes, records>>
    /\ ClientUnchanged

\* API.notes.create({account_id, content})
API_notes_create(a) ==
    /\ LedgerSize < MaxEntries
    /\ notes' = [notes EXCEPT ![<<a, today>>] = @ + 1]
    /\ UNCHANGED <<activities, snoozes, records>>
    /\ ClientUnchanged

\* API.accounts.snooze(id)
API_accounts_snooze(a) ==
    /\ LedgerSize < MaxEntries \/ <<a, today>> \in snoozes
    /\ SetSnoozeMarker(a)
    /\ UNCHANGED <<activities, notes, records>>
    /\ ClientUnchanged

\* API.tasks.create, API.deals.create, API.contacts.create
API_create(kind, a) ==
    /\ RecordCount < MaxRecords
    /\ records' = [records EXCEPT ![kind][a] = @ + 1]
    /\ UNCHANGED <<activities, notes, snoozes>>
    /\ ClientUnchanged

\* API.tasks.update, API.deals.update, API.contacts.update, API.accounts.update:
\* a field of an existing task, deal, contact or account changes
API_update(kind, a) ==
    /\ kind \in RecordKinds => records[kind][a] > 0
    /\ UNCHANGED <<activities, notes, snoozes, records>>
    /\ ClientUnchanged

\* API.tasks.delete, API.deals.delete, API.contacts.delete
API_delete(kind, a) ==
    /\ records[kind][a] > 0
    /\ records' = [records EXCEPT ![kind][a] = @ - 1]
    /\ UNCHANGED <<activities, notes, snoozes>>
    /\ ClientUnchanged

NextLedger ==
    \/ Midnight(MaxDay)
    \/ \E a \in Roster, d \in Dates : API_activities_create(a, d)
    \/ \E a \in Roster : API_notes_create(a)
    \/ \E a \in Roster : API_accounts_snooze(a)
    \/ \E k \in RecordKinds, a \in Roster : API_create(k, a)
    \/ \E k \in RecordKinds \cup {"accounts"}, a \in Roster : API_update(k, a)
    \/ \E k \in RecordKinds, a \in Roster : API_delete(k, a)

SpecLedger == InitLedger /\ [][NextLedger]_vars

HasEntry(a, d) ==
    \/ activities[<<a, d>>] >= 1
    \/ notes[<<a, d>>] >= 1
    \/ \E m \in snoozes : m = <<a, d>>

EntriesOf(a, d) == <<activities[<<a, d>>], notes[<<a, d>>], <<a, d>> \in snoozes>>

NothingDated(d) == \A a \in Roster : ~HasEntry(a, d)

C3_NoUndoTouch ==
    [][/\ \A a \in Roster :
            today' = today =>
              /\ TouchedToday(a, today) => TouchedToday(a, today)'
              /\ (~TouchedToday(a, today) /\ TouchedToday(a, today)') =>
                    \/ activities'[<<a, today>>] = activities[<<a, today>>] + 1
                    \/ notes'[<<a, today>>] = notes[<<a, today>>] + 1
                    \/ (<<a, today>> \notin snoozes /\ <<a, today>> \in snoozes')
       /\ \A p \in Slots : activities'[p] >= activities[p] /\ notes'[p] >= notes[p]
       /\ snoozes \subseteq snoozes']_vars

C3_Witness ==
    \E a \in Roster :
        /\ <<a, today>> \in snoozes
        /\ activities[<<a, today>>] = 1
        /\ records["tasks"][a] = 1

-----------------------------------------------------------------------------
(* SpecClock: the wall clock by the hour in a zone at a fixed offset from   *)
(* UTC, the places that ask for today's date, and a render pass taken card  *)
(* by card: every card reads the clock for itself (daysSince, daysUntil).   *)

MaxClockDay == 2

UtcOffsets == {-6, 0, 9}

ClockAccounts ==
    [i \in 1..2 |-> Account(i, CHOOSE p \in AccountProfiles : p.open_tasks = 2, FALSE)]

InitClock ==
    /\ today = 1
    /\ tz = NoDst
    /\ hour = 0
    /\ utcOffset \in UtcOffsets
    /\ lastActiveDate = NULL
    /\ activityDate = NULL
    /\ State_filter = "all"
    /\ State_sortBy = "name"
    /\ State_accounts = ClockAccounts
    /\ grid = <<>>
    /\ passDays = <<>>
    /\ allDone = FALSE
    /\ gridDay = today
    /\ DetailClosed
    /\ LedgerEmpty
    /\ FormsIdle
    /\ NetIdle

\* an hour passes
Tick ==
    /\ IF hour + 1 < HoursPerDay
       THEN hour' = hour + 1 /\ UNCHANGED today
       ELSE today < MaxClockDay /\ hour' = 0 /\ today' = today + 1
    /\ UNCHANGED <<tz, utcOffset, lastActiveDate, activityDate, passDays>>
    /\ UNCHANGED <<renderVars, detailVars, ledgerVars, formVars, netVars>>

\* the body of checkDailyReset: the notification is un-hidden when a day is
\* stored and is not the string getTodayStr gives now; then that string is
\* stored
DailyReset ==
    LET todayStr == getTodayStr(today, hour, utcOffset)
        lastDate == lastActiveDate
    IN  /\ newDayNotice' = IF Truthy(lastDate) /\ lastDate # todayStr
                           THEN TRUE ELSE newDayNotice
        /\ lastActiveDate' = todayStr

\* checkDailyReset
checkDailyReset ==
    /\ DailyReset
    /\ UNCHANGED <<wallVars, activityDate, passDays, page, viewVars>>
    /\ UNCHANGED <<renderVars, detailVars, clockVars, ledgerVars, formVars>>
    /\ UNCHANGED <<loads, callVars, syncVars>>

\* the activity_date handleQuickLog sends
handleQuickLog_date ==
    /\ activityDate' = getTodayStr(today, hour, utcOffset)
    /\ UNCHANGED <<wallVars, lastActiveDate, passDays>>
    /\ UNCHANGED <<renderVars, detailVars, clockVars, ledgerVars, formVars, netVars>>

\* click on the 'more' quick-action button of account a: the activity modal
\* opens with the account and with today's date pre-filled
openActivityModal(a) ==
    /\ activityModal' = [activityModal EXCEPT !.open = TRUE, !.accountId = a,
                             !.date = getTodayStr(today, hour, utcOffset)]
    /\ UNCHANGED <<quickLog, toast>>
    /\ UNCHANGED <<wallVars, lastActiveDate, activityDate, passDays>>
    /\ UNCHANGED <<renderVars, detailVars, clockVars, ledgerVars, netVars>>

\* renderAccounts starts a pass over State.accounts
BeginRender ==
    /\ grid' = <<>>
    /\ passDays' = <<>>
    /\ UNCHANGED <<State_accounts, State_filter, State_sortBy, allDone, gridDay>>
    /\ UNCHANGED <<wallVars, lastActiveDate, activityDate>>
    /\ UNCHANGED <<detailVars, clockVars, ledgerVars, formVars, netVars>>

\* renderAccountCard for the next account: daysSince and daysUntil take
\* `new Date()` and setHours(0, 0, 0, 0), the local day of that instant
RenderCard ==
    /\ Len(passDays) < Len(State_accounts)
    /\ passDays' = Append(passDays, today)
    /\ grid' = Append(grid, renderAccountCard(State_accounts[Len(passDays) + 1], today, tz))
    /\ gridDay' = today
    /\ UNCHANGED <<State_accounts, State_filter, State_sortBy, allDone>>
    /\ UNCHANGED <<wallVars, lastActiveDate, activityDate>>
    /\ UNCHANGED <<detailVars, clockVars, ledgerVars, formVars, netVars>>

NextClock ==
    \/ Tick
    \/ checkDailyReset
    \/ handleQuickLog_date
    \/ \E a \in 1..Len(State_accounts) : openActivityModal(a)
    \/ BeginRender
    \/ RenderCard

SpecClock == InitClock /\ [][NextClock]_vars

\* the date strings: whatever getTodayStr hands out names the local day
DateStringsLocal ==
    [][ /\ (activityDate' # activityDate => activityDate' = DateStr(today'))
        /\ (activityModal'.date # activityModal.date
               => activityModal'.date = DateStr(today'))
        /\ (lastActiveDate' # lastActiveDate
               => lastActiveDate' = DateStr(today')) ]_vars

\* one day per render pass
OneDayPerPass == \A i, j \in 1..Len(passDays) : passDays[i] = passDays[j]

\* C13: one "today" everywhere, the local calendar day.  The date string
\* getTodayStr gives at any instant (sent by quick-log, pre-filled in the
\* activity form, stored by checkDailyReset) names the local day daysSince
\* and daysUntil count from; and all cards of one render pass are computed
\* against the same day, also when the pass straddles midnight.
C13_OneToday == DateStringsLocal /\ []OneDayPerPass

-----------------------------------------------------------------------------
(* SpecForm: the Log Activity form in front of the ledger.  The instant of  *)
(* the session is drawn from a few hours of local day 1 in a few zones; the *)
(* server's day is that local day.                                          *)

SampleHours == {3, 12, 20}

ErrorMessages == {"Request failed", "Failed to fetch"}

\* the answer of GET /api/accounts on day d, in the order of the roster
RosterAccounts(d) ==
    [a \in 1..Cardinality(Roster) |->
        Account(a, CHOOSE p \in AccountProfiles : p.open_tasks = 2, TouchedToday(a, d))]

\* loadAccounts when the request succeeds: the answer is stored and rendered
loadAccounts ==
    renderAccounts(RosterAccounts(today)', State_filter, State_sortBy)

InitForm ==
    /\ today = 1
    /\ tz = NoDst
    /\ hour \in SampleHours
    /\ utcOffset \in UtcOffsets
    /\ activities = [p \in Slots |-> 0]
    /\ notes = [p \in Slots |-> 0]
    /\ snoozes = {}
    /\ records = [k \in RecordKinds |-> [a \in Roster |-> 0]]
    /\ State_filter \in {"untouched", "all"}
    /\ State_sortBy = "name"
    /\ State_accounts = RosterAccounts(today)
    /\ grid = GridCards(State_accounts, State_filter, State_sortBy, today, tz)
    /\ allDone = ShowAllDone(State_accounts, State_filter, State_sortBy)
    /\ gridDay = today
    /\ DetailClosed
    /\ lastActiveDate = NULL
    /\ activityDate = NULL
    /\ passDays = <<>>
    /\ FormsIdle
    /\ NetIdle

\* the user sets #activity-date (NULL: the field is emptied)
EditActivityDate(d) ==
    /\ activityModal.open
    /\ activityModal' = [activityModal EXCEPT !.date = d]
    /\ UNCHANGED <<quickLog, toast>>
    /\ UNCHANGED <<wallVars, lastActiveDate, activityDate, passDays>>
    /\ UNCHANGED <<renderVars, detailVars, clockVars, ledgerVars, netVars>>

\* the user types into #activity-description
TypeDescription(text) ==
    /\ activityModal.open
    /\ activityModal' = [activityModal EXCEPT !.description = text]
    /\ UNCHANGED <<quickLog, toast>>
    /\ UNCHANGED <<wallVars, lastActiveDate, activityDate, passDays>>
    /\ UNCHANGED <<renderVars, detailVars, clockVars, ledgerVars, netVars>>

\* the activity_date handleActivitySubmit sends
SubmittedDate ==
    IF Truthy(activityModal.date) THEN activityModal.date
    ELSE getTodayStr(today, hour, utcOffset)

\* handleActivitySubmit; outcome is "ok" or the message of the error thrown by
\* API.activities.create.  On success the modal is closed, the form reset and
\* the account list loaded again (at once or 600 ms later).
handleActivitySubmit(outcome) ==
    /\ activityModal.open
    /\ IF outcome = "ok"
       THEN /\ LedgerSize < MaxEntries
            /\ activities' = [activities EXCEPT
                                 ![<<activityModal.accountId, ParseDate(SubmittedDate)>>] = @ + 1]
            /\ activityModal' = [open |-> FALSE, accountId |-> activityModal.accountId,
                                 date |-> NULL, description |-> NULL]
            /\ toast' = <<"Activity logged">>
            /\ UNCHANGED <<State_filter, State_sortBy>>
            /\ UNCHANGED <<notes, snoozes, records, clockVars>>
            /\ loadAccounts
       ELSE /\ toast' = <<"Failed: ", outcome>>
            /\ UNCHANGED <<activityModal, renderVars, clockVars, ledgerVars>>
    /\ UNCHANGED <<quickLog, wallVars, lastActiveDate, activityDate, passDays, detailVars>>
    /\ UNCHANGED netVars

NextForm ==
    \/ \E a \in Roster : openActivityModal(a)
    \/ \E d \in {NULL} \cup {DateStr(e) : e \in Dates} : EditActivityDate(d)
    \/ TypeDescription(<<"c">>)
    \/ \E outcome \in {"ok"} \cup ErrorMessages : handleActivitySubmit(outcome)

SpecForm == InitForm /\ [][NextForm]_vars

\* a step in which the submit of the Log Activity form for account a succeeds
SubmitSucceeds(a) ==
    /\ activityModal.open
    /\ activityModal.accountId = a
    /\ activities' # activities

\* C16: after a successful submit of the Log Activity form and the reload of
\* the account list the account has touched_today true, whatever activity
\* date the form held.
C16_SubmitTouches ==
    [][\A a \in Roster : SubmitSucceeds(a) => State_accounts'[a].touched_today]_vars

\* the same for the date the modal pre-fills, left as it is
SubmitDefaultDateTouches ==
    [][\A a \in Roster :
          SubmitSucceeds(a) /\ activityModal.date = getTodayStr(today, hour, utcOffset)
              => State_accounts'[a].touched_today]_vars

\* the same for an activity dated the server's day
SubmitTodayTouches ==
    [][\A a \in Roster :
          SubmitSucceeds(a) /\ SubmittedDate = DateStr(today)
              => State_accounts'[a].touched_today]_vars

-----------------------------------------------------------------------------
(* The call sites of the API, each named after the function or handler     *)
(* that holds it, and what the catch block of each shows                    *)

\* catch: showToast('Failed: ' + error.message)
FailedMessageSites ==
    {"handleActivitySubmit", "handleTaskSubmit", "handleNoteSubmit", "handleDealSubmit",
     "handleContactSubmit", "handleAccountEditSubmit", "handleQuickLog", "snooze"}

\* catch: showToast of a fixed text
FixedTextSites ==
    {"task-checkbox", "delete-task", "edit-deal", "delete-deal", "edit-contact",
     "delete-contact"}

\* catch: the list of the detail modal is replaced by a text
ListLoaders ==
    {"loadAccountActivities", "loadAccountTasks", "loadAccountDeals",
     "loadAccountContacts", "loadAccountNotes"}

\* catch: console.error
ConsoleSites == {"loadDashboard", "updateSyncStatus"}

CallSites ==
    FailedMessageSites \cup FixedTextSites \cup ListLoaders \cup ConsoleSites
        \cup {"loadAccounts", "handleSync"}

FixedText(site) ==
    CASE site = "task-checkbox"  -> "Failed to update task"
      [] site = "delete-task"    -> "Failed to delete task"
      [] site = "edit-deal"      -> "Failed to load deal"
      [] site = "delete-deal"    -> "Failed to delete deal"
      [] site = "edit-contact"   -> "Failed to load contact"
      [] site = "delete-contact" -> "Failed to delete contact"

ListText(site) ==
    CASE site = "loadAccountActivities" -> "Failed to load activities"
      [] site = "loadAccountTasks"      -> "Failed to load tasks"
      [] site = "loadAccountDeals"      -> "Failed to load deals"
      [] site = "loadAccountContacts"   -> "Failed to load contacts"
      [] site = "loadAccountNotes"      -> "Failed to load notes"

\* faulty variant: every call site shows 'Failed: <message>'
FailureToastUniform(site, message) == <<"Failed: ", message>>

\* what the catch block of a call site hands to showToast (<<>>: it shows no
\* notification)
FailureToast(site, message) ==
    IF site \in FailedMessageSites THEN <<"Failed: ", message>>
    ELSE IF site = "loadAccounts" THEN <<"Failed to load accounts: ", message>>
    ELSE IF site = "handleSync" THEN <<"Sync failed: ", message>>
    ELSE IF site \in FixedTextSites THEN <<FixedText(site)>>
    ELSE <<>>

-----------------------------------------------------------------------------
(* SpecAsync: loadAccounts as the asynchronous call it is.  A call is first *)
(* waiting for its 600 ms timer ("timer") or on its way to the server       *)
(* ("sent"), then answered from the ledger as it is at that moment          *)
(* ("answered"), and at last its answer reaches the continuation, which     *)
(* stores it in State.accounts and renders.  Nothing orders the answers of  *)
(* calls that overlap.                                                      *)

MaxLoads == 2

\* data.accounts of an answer in which the accounts of set touched are touched
AnswerAccounts(touched) ==
    [a \in 1..Cardinality(Roster) |->
        Account(a, CHOOSE p \in AccountProfiles : p.open_tasks = 2, a \in touched)]

\* loads without its i-th element
Without(i) == SubSeq(loads, 1, i - 1) \o SubSeq(loads, i + 1, Len(loads))

\* faulty variant: the counts are taken over the cards of filter 'untouched'
updateProgressOfCards(accounts) ==
    LET cards == VisibleAccounts(accounts, "untouched", "name")
        touched == Cardinality({i \in 1..Len(cards) : cards[i].touched_today})
        total == Len(cards)
    IN  [touched |-> touched, total |-> total,
         width |-> IF total > 0 THEN [num |-> touched * 100, den |-> total]
                   ELSE [num |-> 0, den |-> 1]]

\* updateProgress: the counts over State.accounts and the width of the bar,
\* a percentage kept as the fraction num / den
updateProgress(accounts) ==
    LET touched == Cardinality({i \in 1..Len(accounts) : accounts[i].touched_today})
        total == Len(accounts)
    IN  [touched |-> touched, total |-> total,
         width |-> IF total > 0 THEN [num |-> touched * 100, den |-> total]
                   ELSE [num |-> 0, den |-> 1]]

\* the call sites that change data on the server, by what their handler does
\* once the request has succeeded: loadAccounts at once or after the 600 ms
\* of the card animation; loadAccounts at once; loadAccounts after the list
\* of the detail modal has been loaded again
TimerSites == {"handleActivitySubmit", "handleQuickLog", "snooze"}

DirectSites ==
    {"handleTaskSubmit", "handleNoteSubmit", "handleDealSubmit", "handleContactSubmit",
     "handleAccountEditSubmit"}

ListSites == {"task-checkbox", "delete-task", "delete-deal", "delete-contact"}

MutationSites == TimerSites \cup DirectSites \cup ListSites

\* the handlers reached from the detail modal only
DetailSites == (DirectSites \cup ListSites)

\* faulty variant: the handlers of the lists of the detail modal load their
\* list again and are done
ReloadStageListOnly(site, filter, cardShown) ==
    IF site \in ListSites THEN "tail"
    ELSE IF site = "snooze" /\ filter = "untouched" THEN "timer"
    ELSE IF site \in TimerSites /\ site # "snooze" /\ filter = "untouched" /\ cardShown
    THEN "timer"
    ELSE "sent"

\* where a handler stands once its request has succeeded: "timer" (setTimeout
\* of 600 ms, then loadAccounts), "list" (await loadAccount...(), then
\* loadAccounts) or "sent" (loadAccounts called)
ReloadStage(site, filter, cardShown) ==
    IF site \in ListSites THEN "list"
    ELSE IF site = "snooze" /\ filter = "untouched" THEN "timer"
    ELSE IF site \in TimerSites /\ site # "snooze" /\ filter = "untouched" /\ cardShown
    THEN "timer"
    ELSE "sent"

\* the notification of a handler whose request succeeded (<<>>: none)
SuccessToast(site, updated) ==
    CASE site = "handleActivitySubmit" -> <<"Activity logged">>
      [] site = "handleQuickLog" -> <<"logged">>
      [] site = "snooze" -> <<"Account snoozed">>
      [] site = "handleTaskSubmit" -> <<"Task added">>
      [] site = "handleNoteSubmit" -> <<"Note added">>
      [] site = "handleDealSubmit" -> IF updated THEN <<"Deal updated">> ELSE <<"Deal created">>
      [] site = "handleContactSubmit" ->
           IF updated THEN <<"Contact updated">> ELSE <<"Contact added">>
      [] site = "handleAccountEditSubmit" -> <<"Account updated">>
      [] site = "delete-task" -> <<"Task deleted">>
      [] site = "delete-deal" -> <<"Deal deleted">>
      [] site = "delete-contact" -> <<"Contact deleted">>
      [] OTHER -> <<>>

\* the notification is shown after loadAccounts (and what the handler awaits
\* next) has returned, not before loadAccounts is called
ToastAfterLoad(site, stage) ==
    \/ site = "snooze"
    \/ site \in {"delete-task", "delete-deal", "delete-contact"}
    \/ site \in {"handleActivitySubmit", "handleQuickLog"} /\ stage = "timer"

\* the list a handler of the detail modal loads again
ListLoader(site) ==
    CASE site \in {"task-checkbox", "delete-task"} -> "loadAccountTasks"
      [] site \in {"delete-deal", "handleDealSubmit"} -> "loadAccountDeals"
      [] site \in {"delete-contact", "handleContactSubmit"} -> "loadAccountContacts"

\* what a handler awaits after loadAccounts has returned ("": nothing)
TailOf(site, currentAccountId) ==
    IF site \in {"delete-deal", "handleAccountEditSubmit"} THEN "loadDashboard"
    ELSE IF site \in {"handleDealSubmit", "handleContactSubmit"} /\ currentAccountId # 0
    THEN ListLoader(site)
    ELSE ""

\* a call of loadAccounts a handler owes or has made
Load(stage, site, text) == [stage |-> stage, site |-> site, touched |-> {}, toast |-> text]

\* the stages in which the request of loadAccounts is under way
InFlight == {"sent", "answered", "dashboard"}

InitAsync ==
    /\ today = 1
    /\ tz = NoDst
    /\ WallAtMidnightUtc
    /\ activities = [p \in Slots |-> 0]
    /\ notes = [p \in Slots |-> 0]
    /\ snoozes = {}
    /\ records = [k \in RecordKinds |-> [a \in Roster |-> 0]]
    /\ State_filter = "untouched"
    /\ State_sortBy = "name"
    /\ State_accounts = <<>>
    /\ grid = <<>>
    /\ allDone = FALSE
    /\ gridDay = today
    /\ DetailClosed
    /\ lastActiveDate = NULL
    /\ activityDate = NULL
    /\ passDays = <<>>
    /\ FormsIdle
    /\ NetIdle

AsyncFrame == UNCHANGED <<clockVars, wallVars, lastActiveDate, activityDate,
                          passDays, activityModal, quickLog, lastError, requestsSent,
                          syncVars, resetVars, reqVars, uiVars>>

\* init calls loadAccounts: the indicator is shown and the request is sent
CallLoadAccounts ==
    /\ State_accounts = <<>>
    /\ loads = <<>>
    /\ loads' = <<Load("sent", "init", <<>>)>>
    /\ loading' = TRUE
    /\ UNCHANGED <<renderVars, detailVars, ledgerVars, toast, listError, consoleError,
                   progress>>
    /\ AsyncFrame

\* click on the snooze button of the card of account a; outcome is "ok" or
\* the message of the error thrown by API.accounts.snooze.  On success
\* loadAccounts is called, 600 ms later under filter 'untouched', and the
\* notification follows it.
snoozeClick(a, outcome) ==
    /\ \E i \in 1..Len(grid) : grid[i].id = a /\ grid[i].snoozeButton
    /\ IF outcome = "ok"
       THEN /\ Len(loads) < MaxLoads
            /\ SetSnoozeMarker(a)
            /\ loads' = Append(loads,
                   Load(ReloadStage("snooze", State_filter, TRUE), "snooze",
                        SuccessToast("snooze", FALSE)))
            /\ loading' = (loading \/ State_filter # "untouched")
            /\ UNCHANGED toast
       ELSE /\ toast' = FailureToast("snooze", outcome)
            /\ UNCHANGED <<snoozes, loads, loading>>
    /\ UNCHANGED <<activities, notes, records, renderVars, detailVars, listError,
                   consoleError, progress>>
    /\ AsyncFrame

\* the request of a handler that changes data, for account a, has come back;
\* updated says whether a deal or contact form carried the id of a record;
\* outcome is "ok" or the message of the error thrown.  What the server has
\* stored is left to SpecLedger: the answers of this specification show the
\* snooze markers of snoozeClick only
mutation(site, a, updated, outcome) ==
    /\ State_accounts # <<>>
    /\ site \in DetailSites => a = State_currentAccountId
    /\ updated => site \in {"handleDealSubmit", "handleContactSubmit"}
    /\ LET cardShown == \E i \in 1..Len(grid) : grid[i].id = a
           stage == ReloadStage(site, State_filter, cardShown)
           text == SuccessToast(site, updated)
       IN  IF outcome = "ok"
           THEN /\ Len(loads) < MaxLoads
                /\ loads' = Append(loads,
                                   Load(stage, site,
                                        IF ToastAfterLoad(site, stage) THEN text ELSE <<>>))
                /\ loading' = (loading \/ stage = "sent")
                /\ toast' = IF ToastAfterLoad(site, stage) \/ text = <<>> THEN toast ELSE text
           ELSE /\ toast' = FailureToast(site, outcome)
                /\ UNCHANGED <<loads, loading>>
    /\ UNCHANGED <<renderVars, detailVars, ledgerVars, listError, consoleError, progress>>
    /\ AsyncFrame

\* the 600 ms timer of the i-th entry fires: loadAccounts is called
TimerFires(i) ==
    /\ loads[i].stage = "timer"
    /\ loads' = [loads EXCEPT ![i].stage = "sent"]
    /\ loading' = TRUE
    /\ UNCHANGED <<renderVars, detailVars, ledgerVars, toast, listError, consoleError,
                   progress>>
    /\ AsyncFrame

\* loadAccountTasks, loadAccountDeals or loadAccountContacts, awaited by the
\* handler of the i-th entry, returns (it catches its own failure):
\* loadAccounts is called
ListReturns(i, outcome) ==
    /\ loads[i].stage = "list"
    /\ loads' = [loads EXCEPT ![i].stage = "sent"]
    /\ loading' = TRUE
    /\ listError' = IF outcome = "ok" THEN <<>> ELSE <<ListText(ListLoader(loads[i].site))>>
    /\ UNCHANGED <<renderVars, detailVars, ledgerVars, toast, consoleError, progress>>
    /\ AsyncFrame

\* the server answers the request of the i-th call from the ledger
ServerAnswers(i) ==
    /\ loads[i].stage = "sent"
    /\ loads' = [loads EXCEPT ![i].stage = "answered",
                              ![i].touched = {a \in Roster : TouchedToday(a, today)}]
    /\ UNCHANGED <<renderVars, detailVars, ledgerVars, toast, listError, consoleError,
                   loadVars>>
    /\ AsyncFrame

\* the handler of the i-th entry goes on after loadAccounts has returned:
\* it awaits one more loader, or it shows its notification and is done;
\* shown is the notification on the screen by then
HandlerGoesOn(i, shown) ==
    IF TailOf(loads[i].site, State_currentAccountId) # ""
    THEN /\ loads' = [loads EXCEPT ![i].stage = "tail"]
         /\ toast' = shown
    ELSE /\ loads' = Without(i)
         /\ toast' = IF loads[i].toast = <<>> THEN shown ELSE loads[i].toast

\* the request of the i-th call fails: the catch and finally blocks of
\* loadAccounts
LoadFails(i, message) ==
    /\ loads[i].stage = "sent"
    /\ loading' = FALSE
    /\ HandlerGoesOn(i, FailureToast("loadAccounts", message))
    /\ UNCHANGED <<renderVars, detailVars, ledgerVars, listError, consoleError, progress>>
    /\ AsyncFrame

\* the answer of the i-th call reaches loadAccounts: State.accounts =
\* data.accounts, renderAccounts, updateProgress, and loadDashboard is awaited
AnswerArrives(i) ==
    /\ loads[i].stage = "answered"
    /\ loads' = [loads EXCEPT ![i].stage = "dashboard"]
    /\ progress' = updateProgress(AnswerAccounts(loads[i].touched))
    /\ UNCHANGED <<State_filter, State_sortBy, detailVars, ledgerVars, toast, listError,
                   consoleError, loading>>
    /\ AsyncFrame
    /\ renderAccounts(AnswerAccounts(loads[i].touched), State_filter, State_sortBy)

\* loadDashboard, awaited by the i-th call of loadAccounts, returns (it
\* catches its own failure): the finally block hides the indicator
DashboardReturns(i, outcome) ==
    /\ loads[i].stage = "dashboard"
    /\ loading' = FALSE
    /\ consoleError' = IF outcome = "ok" THEN consoleError ELSE <<"loadDashboard", outcome>>
    /\ HandlerGoesOn(i, toast)
    /\ UNCHANGED <<renderVars, detailVars, ledgerVars, listError, progress>>
    /\ AsyncFrame

\* the loader the handler of the i-th entry awaits after loadAccounts
\* returns; the handler shows its notification, if it has one left
TailReturns(i, outcome) ==
    /\ loads[i].stage = "tail"
    /\ loads' = Without(i)
    /\ toast' = IF loads[i].toast = <<>> THEN toast ELSE loads[i].toast
    /\ LET loader == TailOf(loads[i].site, 1)
       IN  /\ consoleError' = IF outcome # "ok" /\ loader = "loadDashboard"
                              THEN <<loader, outcome>> ELSE consoleError
           /\ listError' = IF loader = "loadDashboard" THEN listError
                           ELSE IF outcome = "ok" THEN <<>> ELSE <<ListText(loader)>>
    /\ UNCHANGED <<renderVars, detailVars, ledgerVars, loadVars>>
    /\ AsyncFrame

\* how a request comes back: it succeeds, or fetch rejects
Outcomes == {"ok", "Failed to fetch"}

\* the handlers reached from a card of the grid
CardSites == {"handleActivitySubmit", "handleQuickLog"}

NextAsync ==
    \/ CallLoadAccounts
    \/ \E a \in Roster, outcome \in Outcomes : snoozeClick(a, outcome)
    \/ \E site \in CardSites, a \in Roster, outcome \in Outcomes :
            mutation(site, a, FALSE, outcome)
    \/ \E i \in 1..Len(loads) : TimerFires(i)
    \/ \E i \in 1..Len(loads) : ServerAnswers(i)
    \/ \E i \in 1..Len(loads), message \in Outcomes \ {"ok"} : LoadFails(i, message)
    \/ \E i \in 1..Len(loads) : AnswerArrives(i)
    \/ \E i \in 1..Len(loads), outcome \in Outcomes : DashboardReturns(i, outcome)
    \/ \E f \in Filters : FilterClick(f)
    \/ \E k \in {"name", "touched"} : SortChange(k)

SpecAsync == InitAsync /\ [][NextAsync]_vars

\* a step in which the continuation of loadAccounts takes the answer of the
\* i-th call
TakesAnswer(i) ==
    /\ i \in 1..Len(loads)
    /\ loads[i].stage = "answered"
    /\ Len(loads') = Len(loads)
    /\ loads'[i].stage = "dashboard"

\* C23: derived account fields are never stored as independent truth on the
\* client.  In every reachable state State.accounts is the initial empty list
\* or exactly the account list of an answer to GET /api/accounts; it changes
\* only in the step in which loadAccounts takes an answer, and becomes that
\* answer's list; no handler (activity, quick-log, snooze, filter, sort)
\* edits touched_today, open_tasks or any other field of an account.
C23_AccountsFromServer ==
    /\ [](State_accounts = <<>>
            \/ \E touched \in SUBSET Roster : State_accounts = AnswerAccounts(touched))
    /\ [][State_accounts' # State_accounts =>
             \E i \in 1..Len(loads) :
                 /\ TakesAnswer(i)
                 /\ State_accounts' = AnswerAccounts(loads[i].touched)]_vars

\* account 2 was snoozed and an answer showing it has been stored; the user
\* has chosen filter 'touched' and sort key 'touched': the grid shows one
\* card, State.accounts both accounts in the order of the answer
C23_Witness ==
    /\ State_accounts = AnswerAccounts({2})
    /\ State_filter = "touched"
    /\ State_sortBy = "touched"
    /\ Len(grid) = 1
    /\ loads = <<>>

\* C27: the loading indicator is visible whenever an account-list load is
\* in flight; with two overlapping calls of loadAccounts it is hidden only
\* after the last of them has completed.
C27_LoadingWhileInFlight ==
    (\E i \in 1..Len(loads) : loads[i].stage \in InFlight) => loading

\* C17: once every pending account-list load has completed, State.accounts
\* shows every account touched for which a snooze (an entry dated today) was
\* created successfully: no answer computed before the create is the one
\* that stays in State.accounts.
C17_CreateThenRead ==
    loads = <<>> =>
        \A a \in Roster : <<a, today>> \in snoozes => State_accounts[a].touched_today

-----------------------------------------------------------------------------
(* SpecReload: every handler that changes data, from the return of its      *)
(* request to its call of loadAccounts, the user going on in between.  The  *)
(* app starts as in SpecAsync.  Every timer that was set fires, and every   *)
(* request of a list loader comes back or fails: that is the fairness of    *)
(* SpecReload.                                                              *)

MaxHandlers == 1

NextReload ==
    \/ CallLoadAccounts
    \/ \E site \in MutationSites, a \in Roster, updated \in BOOLEAN, outcome \in Outcomes :
            Len(loads) < MaxHandlers /\ mutation(site, a, updated, outcome)
    \/ \E i \in 1..Len(loads) : TimerFires(i)
    \/ \E i \in 1..Len(loads), outcome \in Outcomes : ListReturns(i, outcome)
    \/ \E i \in 1..Len(loads) : ServerAnswers(i)
    \/ \E i \in 1..Len(loads), message \in Outcomes \ {"ok"} : LoadFails(i, message)
    \/ \E i \in 1..Len(loads) : AnswerArrives(i)
    \/ \E i \in 1..Len(loads), outcome \in Outcomes : DashboardReturns(i, outcome)
    \/ \E i \in 1..Len(loads), outcome \in Outcomes : TailReturns(i, outcome)
    \/ \E f \in Filters : FilterClick(f)
    \/ \E a \in Roster : openAccountDetail(a)

SpecReload ==
    /\ InitAsync
    /\ [][NextReload]_vars
    /\ \A i \in 1..MaxHandlers :
          /\ WF_vars(i <= Len(loads) /\ TimerFires(i))
          /\ WF_vars(i <= Len(loads) /\ \E outcome \in Outcomes : ListReturns(i, outcome))

\* the handler of site has its request back and has not called loadAccounts yet
Owed(site) ==
    \E i \in 1..Len(loads) : loads[i].site = site /\ loads[i].stage \in {"timer", "list"}

\* the handler of site has called loadAccounts
Called(site) ==
    \E i \in 1..Len(loads) : loads[i].site = site /\ loads[i].stage = "sent" /\ loading

\* a step in which the request of a handler comes back successfully
Succeeds(site) ==
    \E a \in Roster, updated \in BOOLEAN : mutation(site, a, updated, "ok")

\* C24: every successful mutation is eventually followed by a reload of the
\* account list.  When the request of an activity, quick-log, note, task,
\* deal, contact, account-edit or snooze handler has succeeded, the handler
\* has called loadAccounts in that step or owes the call, and a call that is
\* owed (after the 600 ms of the card animation, or after the list of the
\* detail modal has been loaded again) is made, whatever the user does in
\* between.
C24_ReloadFollows ==
    /\ [][\A site \in MutationSites :
             Succeeds(site) =>
                 /\ Len(loads') = Len(loads) + 1
                 /\ loads'[Len(loads')].site = site
                 /\ loads'[Len(loads')].stage \in {"timer", "list", "sent"}
                 /\ loads'[Len(loads')].stage = "sent" => loading']_vars
    /\ \A site \in MutationSites : Owed(site) ~> Called(site)

\* a deal was deleted from the detail modal, the user has switched to filter
\* 'touched', loading the deals again has failed, and the handler has called
\* loadAccounts all the same
C24_Witness ==
    /\ Called("delete-deal")
    /\ State_filter = "touched"
    /\ listError = <<ListText("loadAccountDeals")>>

-----------------------------------------------------------------------------
(* SpecQuick: the inline quick-log form of the cards and the Log Activity   *)
(* modal, each request succeeding or failing                                *)

InitQuick ==
    /\ today = 1
    /\ tz = NoDst
    /\ WallAtMidnightUtc
    /\ activities = [p \in Slots |-> 0]
    /\ notes = [p \in Slots |-> 0]
    /\ snoozes = {}
    /\ records = [k \in RecordKinds |-> [a \in Roster |-> 0]]
    /\ State_filter \in {"untouched", "all"}
    /\ State_sortBy = "name"
    /\ State_accounts = RosterAccounts(today)
    /\ grid = GridCards(State_accounts, State_filter, State_sortBy, today, tz)
    /\ allDone = ShowAllDone(State_accounts, State_filter, State_sortBy)
    /\ gridDay = today
    /\ DetailClosed
    /\ lastActiveDate = NULL
    /\ activityDate = NULL
    /\ passDays = <<>>
    /\ FormsIdle
    /\ NetIdle

QuickFrame == UNCHANGED <<detailVars, clockVars, wallVars, lastActiveDate, passDays, netVars>>

\* click on a quick-action button (call, email, ...) of the card of account
\* a: the inline forms of the other cards are hidden, the one of this card is
\* shown
openQuickLog(a) ==
    /\ \E i \in 1..Len(grid) : grid[i].id = a
    /\ quickLog' = [accountId |-> a, open |-> TRUE,
                    text |-> IF quickLog.accountId = a THEN quickLog.text ELSE NULL]
    /\ UNCHANGED <<activityModal, toast, activityDate, renderVars, ledgerVars>>
    /\ QuickFrame

\* the user types into the .quick-log-input that is shown
TypeQuickLog(text) ==
    /\ quickLog.open
    /\ quickLog' = [quickLog EXCEPT !.text = text]
    /\ UNCHANGED <<activityModal, toast, activityDate, renderVars, ledgerVars>>
    /\ QuickFrame

\* click on .quick-log-submit (or Enter in the input): handleQuickLog is
\* awaited, which catches the error of a failed request itself; then the
\* inline form is hidden and its input emptied.  outcome is "ok" or the
\* message of the error thrown by API.activities.create.
quickLogSubmit(outcome) ==
    /\ quickLog.open
    /\ Truthy(quickLog.text)
    /\ activityDate' = getTodayStr(today, hour, utcOffset)
    /\ IF outcome = "ok"
       THEN /\ LedgerSize < MaxEntries
            /\ activities' = [activities EXCEPT
                                 ![<<quickLog.accountId, ParseDate(activityDate')>>] = @ + 1]
            /\ toast' = <<"logged">>
            /\ UNCHANGED <<State_filter, State_sortBy>>
            /\ UNCHANGED <<notes, snoozes, records, clockVars>>
            /\ loadAccounts
       ELSE /\ toast' = <<"Failed: ", outcome>>
            /\ UNCHANGED <<renderVars, clockVars, ledgerVars>>
    /\ quickLog' = [quickLog EXCEPT !.open = FALSE, !.text = NULL]
    /\ UNCHANGED <<activityModal, detailVars, wallVars, lastActiveDate, passDays, netVars>>

\* showToast's timer hides the notification
ToastHides ==
    /\ toast # <<>>
    /\ toast' = <<>>
    /\ UNCHANGED <<activityModal, quickLog, activityDate, renderVars, ledgerVars>>
    /\ QuickFrame

NextQuick ==
    \/ \E a \in Roster : openQuickLog(a)
    \/ TypeQuickLog(<<"c">>)
    \/ \E outcome \in {"ok"} \cup ErrorMessages : quickLogSubmit(outcome)
    \/ \E a \in Roster : openActivityModal(a)
    \/ TypeDescription(<<"c">>)
    \/ \E outcome \in {"ok"} \cup ErrorMessages : handleActivitySubmit(outcome)
    \/ ToastHides

SpecQuick == InitQuick /\ [][NextQuick]_vars

\* a step in which a request fails: the failure notification comes up
FailedStep ==
    /\ toast' # toast
    /\ Len(toast') = 2
    /\ toast'[1] = "Failed: "

\* C18: a failed request leaves State.accounts, the filter, the sort key, the
\* open modal or inline form and the text typed into it as they were before
\* the action; the inline quick-log form stays open with its text.
C18_FailureLeavesState ==
    [][FailedStep => UNCHANGED <<State_accounts, State_filter, State_sortBy,
                                 activityModal, quickLog>>]_vars

\* the same for the failures that happen while no inline form is shown
FailureLeavesModal ==
    [][FailedStep /\ ~quickLog.open
          => UNCHANGED <<State_accounts, State_filter, State_sortBy, grid,
                         activityModal, quickLog>>]_vars

-----------------------------------------------------------------------------
(* SpecCalls: every place where the client calls the API, the call failing. *)
(* A call site is named after the function or handler that holds it.        *)

InitCalls ==
    /\ today = 1
    /\ tz = NoDst
    /\ State_filter = "untouched"
    /\ State_sortBy = "name"
    /\ State_accounts = <<>>
    /\ grid = <<>>
    /\ allDone = FALSE
    /\ gridDay = today
    /\ DetailClosed
    /\ LedgerEmpty
    /\ ExtIdle

\* a user action (or a loader it starts) sends the request of call site
\* `site` and the request fails: API.request throws Error(message), the catch
\* block of the site runs, nothing is sent again
CallFails(site, message) ==
    /\ requestsSent' = 1
    /\ lastError' = [n |-> 1 - lastError.n, site |-> site, message |-> message]
    /\ toast' = IF FailureToast(site, message) = <<>> THEN toast
                ELSE FailureToast(site, message)
    /\ listError' = IF site \in ListLoaders THEN <<ListText(site)>> ELSE listError
    /\ consoleError' = IF site \in ConsoleSites THEN <<site, message>> ELSE consoleError
    /\ UNCHANGED <<renderVars, detailVars, clockVars, ledgerVars>>
    /\ UNCHANGED <<wallVars, lastActiveDate, activityDate, passDays>>
    /\ UNCHANGED <<activityModal, quickLog, loads, syncVars, pageVars>>

NextCalls ==
    \/ \E site \in CallSites, message \in ErrorMessages : CallFails(site, message)

SpecCalls == InitCalls /\ [][NextCalls]_vars

\* a step in which a call site catches an error
CatchStep == lastError' # lastError

-----------------------------------------------------------------------------
(* SpecSync: the sync button.  handleSync waits for POST /api/sync, on      *)
(* success for an updateSyncStatus call, and starts one more such call at   *)
(* the end that nobody waits for; init starts one as well.  The server      *)
(* counts the rows not synced yet.  Every request is answered or fails in   *)
(* the end.                                                                 *)

MaxUnsynced == 2
MaxStatus == 2

BadgeReset == [inDocument |-> TRUE, hidden |-> TRUE, text |-> 0]

InitSync ==
    /\ today = 1
    /\ tz = NoDst
    /\ State_filter = "untouched"
    /\ State_sortBy = "name"
    /\ State_accounts = ClockAccounts
    /\ grid = GridCards(State_accounts, State_filter, State_sortBy, today, tz)
    /\ allDone = ShowAllDone(State_accounts, State_filter, State_sortBy)
    /\ gridDay = today
    /\ DetailClosed
    /\ LedgerEmpty
    /\ WallAtMidnightUtc
    /\ lastActiveDate = NULL
    /\ activityDate = NULL
    /\ passDays = <<>>
    /\ FormsIdle
    /\ PageIdle
    /\ loads = <<>>
    /\ lastError = [n |-> 0, site |-> "", message |-> ""]
    /\ listError = <<>>
    /\ consoleError = <<>>
    /\ requestsSent = 0
    /\ syncBtnDisabled = FALSE
    /\ badge = BadgeReset
    /\ syncPc = "idle"
    /\ statusPending = 1
    /\ unsynced \in 0..MaxUnsynced

SyncFrame ==
    UNCHANGED <<renderVars, detailVars, clockVars, ledgerVars, wallVars, lastActiveDate,
                activityDate, passDays, activityModal, quickLog, loads, lastError,
                listError, requestsSent, pageVars>>

\* the body of updateSyncStatus after its await: the answer of GET
\* /api/sync/status is written to the badge; a missing badge element throws
\* inside the try block; outcome is "ok" or the message of the error
BadgeAfterStatus(outcome) ==
    IF outcome = "ok" /\ badge.inDocument
    THEN IF unsynced > 0
         THEN [inDocument |-> TRUE, hidden |-> FALSE, text |-> unsynced]
         ELSE [badge EXCEPT !.hidden = TRUE]
    ELSE badge

ConsoleAfterStatus(outcome) ==
    IF outcome # "ok" THEN <<"updateSyncStatus", outcome>>
    ELSE IF ~badge.inDocument THEN <<"updateSyncStatus", "TypeError">>
    ELSE consoleError

\* the finally block of handleSync: the button is enabled, its content is
\* written anew (with a hidden badge reading 0) and updateSyncStatus is called
SyncFinally ==
    /\ syncBtnDisabled' = FALSE
    /\ badge' = BadgeReset
    /\ statusPending' = statusPending + 1
    /\ syncPc' = "idle"

\* an activity, task, deal or contact is stored: one more row to sync
RowStored ==
    /\ unsynced < MaxUnsynced
    /\ unsynced' = unsynced + 1
    /\ UNCHANGED <<syncBtnDisabled, badge, syncPc, statusPending, toast, consoleError>>
    /\ SyncFrame

\* click on #sync-btn: handleSync up to its first await
handleSync ==
    /\ ~syncBtnDisabled
    /\ statusPending < MaxStatus
    /\ syncBtnDisabled' = TRUE
    /\ badge' = [badge EXCEPT !.inDocument = FALSE]
    /\ syncPc' = "run"
    /\ UNCHANGED <<statusPending, unsynced, toast, consoleError>>
    /\ SyncFrame

\* POST /api/sync succeeds: the rows are marked synced; handleSync shows its
\* notification and calls updateSyncStatus, waiting for it
SyncSucceeds ==
    /\ syncPc = "run"
    /\ unsynced' = 0
    /\ toast' = <<"Sync completed">>
    /\ syncPc' = "status"
    /\ UNCHANGED <<syncBtnDisabled, badge, statusPending, consoleError>>
    /\ SyncFrame

\* POST /api/sync fails: catch and finally of handleSync
SyncFails(message) ==
    /\ syncPc = "run"
    /\ toast' = FailureToast("handleSync", message)
    /\ SyncFinally
    /\ UNCHANGED <<unsynced, consoleError>>
    /\ SyncFrame

\* the updateSyncStatus call handleSync waits for comes back, then finally
StatusAwaitedReturns(outcome) ==
    /\ syncPc = "status"
    /\ consoleError' = ConsoleAfterStatus(outcome)
    /\ SyncFinally
    /\ UNCHANGED <<unsynced, toast>>
    /\ SyncFrame

\* an updateSyncStatus call nobody waits for comes back
StatusReturns(outcome) ==
    /\ statusPending > 0
    /\ statusPending' = statusPending - 1
    /\ badge' = BadgeAfterStatus(outcome)
    /\ consoleError' = ConsoleAfterStatus(outcome)
    /\ UNCHANGED <<syncBtnDisabled, syncPc, unsynced, toast>>
    /\ SyncFrame

SyncAnswered == SyncSucceeds \/ \E message \in ErrorMessages : SyncFails(message)

StatusAwaitedAnswered ==
    \E outcome \in {"ok"} \cup ErrorMessages : StatusAwaitedReturns(outcome)

StatusAnswered == \E outcome \in {"ok"} \cup ErrorMessages : StatusReturns(outcome)

NextSync ==
    \/ RowStored
    \/ handleSync
    \/ SyncAnswered
    \/ StatusAwaitedAnswered
    \/ StatusAnswered

SpecSync ==
    /\ InitSync
    /\ [][NextSync]_vars
    /\ WF_vars(SyncAnswered)
    /\ WF_vars(StatusAwaitedAnswered)
    /\ WF_vars(StatusAnswered)

\* the badge says what the server counts
BadgeFromServer ==
    /\ badge.inDocument
    /\ IF unsynced > 0 THEN ~badge.hidden /\ badge.text = unsynced ELSE badge.hidden

\* the button is disabled while the sync request is under way and comes back
SyncButtonComesBack ==
    /\ [](syncPc = "run" => syncBtnDisabled)
    /\ (syncPc = "run") ~> ~syncBtnDisabled

\* a step in which the sync request fails touches neither State.accounts nor
\* the filter nor the sort key
SyncFailureIsLocal ==
    [][syncPc = "run" /\ syncPc' = "idle"
          => UNCHANGED <<State_accounts, State_filter, State_sortBy>>]_vars

\* C20: handleSync disables the sync button while the sync request is under
\* way; whether the request succeeds or fails the button is enabled again in
\* the end and the unsynced badge is refreshed from the server; a failed sync
\* changes neither State.accounts nor the filter nor the sort key.
C20_SyncNonFatal ==
    /\ SyncButtonComesBack
    /\ (syncPc = "run") ~> (syncPc = "idle" /\ BadgeFromServer)
    /\ SyncFailureIsLocal

-----------------------------------------------------------------------------
(* SpecReset: the app opened and closed over the hours of a few days, in a  *)
(* zone at a fixed offset from UTC.  Every opening runs init, which calls   *)
(* checkDailyReset once; the item 'lastActiveDate' of localStorage outlives *)
(* the page, the notification element does not.                             *)

InitReset ==
    /\ today = 1
    /\ tz = NoDst
    /\ hour = 0
    /\ utcOffset \in UtcOffsets
    /\ lastActiveDate = NULL
    /\ activityDate = NULL
    /\ passDays = <<>>
    /\ State_filter = "untouched"
    /\ State_sortBy = "name"
    /\ State_accounts = <<>>
    /\ grid = <<>>
    /\ allDone = FALSE
    /\ gridDay = today
    /\ DetailClosed
    /\ LedgerEmpty
    /\ FormsIdle
    /\ loads = <<>>
    /\ lastError = [n |-> 0, site |-> "", message |-> ""]
    /\ listError = <<>>
    /\ consoleError = <<>>
    /\ requestsSent = 0
    /\ syncBtnDisabled = FALSE
    /\ badge = BadgeReset
    /\ syncPc = "idle"
    /\ statusPending = 0
    /\ unsynced = 0
    /\ UiIdle
    /\ page = "closed"
    /\ newDayNotice = FALSE
    /\ response = NoResponse
    /\ result = NoResult
    /\ loading = FALSE
    /\ progress = NoProgress

ResetFrame ==
    UNCHANGED <<renderVars, detailVars, ledgerVars, activityDate, passDays, quickLog,
                toast, loads, callVars, syncVars, viewVars>>

\* DOMContentLoaded: init, up to its first await.  The date field of the
\* activity form is pre-filled and checkDailyReset is called
init ==
    /\ page = "closed"
    /\ page' = "open"
    /\ activityModal' = [activityModal EXCEPT !.date = getTodayStr(today, hour, utcOffset)]
    /\ DailyReset
    /\ UNCHANGED <<clockVars, wallVars>>
    /\ ResetFrame

\* the timer checkDailyReset set 4 s earlier hides the notification again
NoticeTimeout ==
    /\ page = "open"
    /\ newDayNotice
    /\ newDayNotice' = FALSE
    /\ UNCHANGED <<clockVars, wallVars, lastActiveDate, activityModal, page>>
    /\ ResetFrame

\* the tab is closed: the document is gone, with its notification element and
\* its form fields
ClosePage ==
    /\ page = "open"
    /\ page' = "closed"
    /\ newDayNotice' = FALSE
    /\ activityModal' = [activityModal EXCEPT !.date = NULL]
    /\ UNCHANGED <<clockVars, wallVars, lastActiveDate>>
    /\ ResetFrame

NextReset ==
    \/ Tick
    \/ init
    \/ NoticeTimeout
    \/ ClosePage

SpecReset == InitReset /\ [][NextReset]_vars

\* a step of init: the page opens
Opens == page = "closed" /\ page' = "open"

\* C21: the 'New Day' notification is shown by checkDailyReset if and only
\* if a last-active date is stored and differs from today's date, the day of
\* the user's local time; it is not shown on the very first run nor on a
\* second open on the same day; after every call the stored last-active date
\* is today.
C21_DailyReset ==
    [][Opens =>
         /\ newDayNotice' <=> (lastActiveDate # NULL /\ lastActiveDate # DateStr(today'))
         /\ lastActiveDate' = DateStr(today')]_vars

\* what does hold: the same rule with the UTC day in place of the local day
DailyResetOnUtcDay ==
    [][Opens =>
         /\ newDayNotice' <=> (lastActiveDate # NULL
                                 /\ lastActiveDate # getTodayStr(today', hour', utcOffset'))
         /\ lastActiveDate' = getTodayStr(today', hour', utcOffset')]_vars

\* the first run is silent whatever the zone
FirstRunSilent == [][Opens /\ lastActiveDate = NULL => ~newDayNotice']_vars

-----------------------------------------------------------------------------
(* SpecRequest: API.request against the responses a server, a proxy or a    *)
(* framework's error page can give: a status and a body text.               *)

Statuses == {200, 201, 204, 299, 300, 400, 404, 500}

Bodies ==
    { "", "<!doctype html>", "null", "[]", "\"oops\"", "{}",
      "{\"accounts\":[]}", "{\"error\":\"\"}", "{\"error\":null}",
      "{\"error\":\"Not found\"}", "{\"error\":\"description is required\"}" }

\* Response.json(): JSON.parse of the body text.  ok is FALSE when the text
\* is not JSON, and the message is the SyntaxError's
JsonParse(text) ==
    CASE text = "" ->
           [ok |-> FALSE, value |-> Undefined, message |-> "Unexpected end of JSON input"]
      [] text = "<!doctype html>" ->
           [ok |-> FALSE, value |-> Undefined, message |-> "Unexpected token '<'"]
      [] text = "null" -> [ok |-> TRUE, value |-> Value("null", "", <<>>), message |-> ""]
      [] text = "[]" -> [ok |-> TRUE, value |-> Value("array", "", <<>>), message |-> ""]
      [] text = "\"oops\"" ->
           [ok |-> TRUE, value |-> Value("string", "oops", <<>>), message |-> ""]
      [] text = "{}" -> [ok |-> TRUE, value |-> Value("object", "", <<>>), message |-> ""]
      [] text = "{\"accounts\":[]}" ->
           [ok |-> TRUE, value |-> Value("object", "accounts", <<>>), message |-> ""]
      [] text = "{\"error\":\"\"}" ->
           [ok |-> TRUE, value |-> Value("object", "", <<Value("string", "", <<>>)>>),
            message |-> ""]
      [] text = "{\"error\":null}" ->
           [ok |-> TRUE, value |-> Value("object", "", <<Value("null", "", <<>>)>>),
            message |-> ""]
      [] text = "{\"error\":\"Not found\"}" ->
           [ok |-> TRUE, value |-> Value("object", "", <<Value("string", "Not found", <<>>)>>),
            message |-> ""]
      [] text = "{\"error\":\"description is required\"}" ->
           [ok |-> TRUE,
            value |-> Value("object", "", <<Value("string", "description is required", <<>>)>>),
            message |-> ""]

\* response.ok
ResponseOk(status) == status >= 200 /\ status <= 299

\* the value of `v.error`; reading a property of null throws a TypeError
ErrorProperty(v) == IF v.error # <<>> THEN v.error[1] ELSE Undefined

\* ToBoolean
JsTruthy(v) ==
    CASE v.type \in {"undefined", "null"} -> FALSE
      [] v.type = "string" -> v.text # ""
      [] OTHER -> TRUE

\* the message of the TypeError `error.error` throws when error is null
NullPropertyMessage == "Cannot read properties of null (reading 'error')"

\* API.request, from `if (!response.ok)` to the throw
Rejection(status, body) ==
    LET parsed == JsonParse(body)
        error == IF parsed.ok THEN parsed.value
                 ELSE Value("object", "", <<Value("string", "Request failed", <<>>)>>)
    IN  IF error.type = "null"
        THEN [kind |-> "rejected", value |-> Undefined, message |-> NullPropertyMessage]
        ELSE [kind |-> "rejected", value |-> Undefined,
              message |-> IF JsTruthy(ErrorProperty(error))
                          THEN ErrorProperty(error).text ELSE "Request failed"]

\* API.request after its first await: how the promise settles for a response
Settle(status, body) ==
    IF ~ResponseOk(status)
    THEN Rejection(status, body)
    ELSE LET parsed == JsonParse(body)
         IN  IF parsed.ok
             THEN [kind |-> "resolved", value |-> parsed.value, message |-> ""]
             ELSE [kind |-> "rejected", value |-> Undefined, message |-> parsed.message]

InitRequest ==
    /\ today = 1
    /\ tz = NoDst
    /\ State_filter = "untouched"
    /\ State_sortBy = "name"
    /\ State_accounts = <<>>
    /\ grid = <<>>
    /\ allDone = FALSE
    /\ gridDay = today
    /\ DetailClosed
    /\ LedgerEmpty
    /\ ExtIdle

RequestFrame ==
    UNCHANGED <<renderVars, detailVars, clockVars, ledgerVars, wallVars, lastActiveDate,
                activityDate, passDays, formVars, loads, callVars, syncVars, resetVars,
                loadVars, uiVars>>

\* API.request is called and fetch resolves with a response
fetchResolves(status, body) ==
    /\ result.kind # "pending"
    /\ response' = [status |-> status, body |-> body]
    /\ result' = [NoResult EXCEPT !.kind = "pending"]
    /\ RequestFrame

\* API.request is called and fetch rejects: the server was not reached
fetchRejects ==
    /\ result.kind # "pending"
    /\ response' = NoResponse
    /\ result' = [kind |-> "rejected", value |-> Undefined, message |-> "Failed to fetch"]
    /\ RequestFrame

\* the body of the response has been read
bodyRead ==
    /\ result.kind = "pending"
    /\ result' = Settle(response.status, response.body)
    /\ UNCHANGED response
    /\ RequestFrame

NextRequest ==
    \/ \E status \in Statuses, body \in Bodies : fetchResolves(status, body)
    \/ fetchRejects
    \/ bodyRead

SpecRequest == InitRequest /\ [][NextRequest]_vars

\* API.request has settled for a response
Settled == result.kind \in {"resolved", "rejected"} /\ response # NoResponse

\* the body is JSON with a non-empty string in its 'error' field
HasErrorString ==
    /\ JsonParse(response.body).ok
    /\ JsonParse(response.body).value.error # <<>>
    /\ JsonParse(response.body).value.error[1].type = "string"
    /\ JsonParse(response.body).value.error[1].text # ""

\* the body is not JSON, or it is JSON without an 'error' field
HasNoError ==
    \/ ~JsonParse(response.body).ok
    \/ JsonParse(response.body).value.error = <<>>

\* C22: API.request resolves with the parsed body when the status is 2xx;
\* for every other response it rejects, with the body's 'error' string as
\* the message when the body is JSON with a non-empty 'error' field and with
\* 'Request failed' when the body is not JSON or has no 'error' field; it
\* never resolves on a non-2xx response.
C22_RequestSettles ==
    Settled =>
      /\ ResponseOk(response.status) =>
           /\ result.kind = "resolved"
           /\ JsonParse(response.body).ok
           /\ result.value = JsonParse(response.body).value
      /\ ~ResponseOk(response.status) =>
           /\ result.kind = "rejected"
           /\ HasErrorString =>
                result.message = JsonParse(response.body).value.error[1].text
           /\ HasNoError => result.message = "Request failed"

\* what does hold: no response outside 2xx resolves
NonOkNeverResolves == Settled /\ ~ResponseOk(response.status) => result.kind = "rejected"

\* what does hold: the claim for every body other than the JSON text null,
\* and for the 2xx responses whose body is JSON
RequestSettlesOnObjects ==
    Settled =>
      /\ ResponseOk(response.status) /\ JsonParse(response.body).ok =>
           /\ result.kind = "resolved"
           /\ result.value = JsonParse(response.body).value
      /\ ~ResponseOk(response.status) /\ response.body # "null" =>
           /\ result.kind = "rejected"
           /\ HasErrorString =>
                result.message = JsonParse(response.body).value.error[1].text
           /\ HasNoError => result.message = "Request failed"

-----------------------------------------------------------------------------
(* SpecDetail: the account detail modal and the loadAccountActivities calls *)
(* that fill its first tab; the responses come back in any order            *)

MaxListCalls == 3

DetailFrame ==
    UNCHANGED <<renderVars, clockVars, ledgerVars, wallVars, lastActiveDate, activityDate,
                passDays, formVars, loads, callVars, syncVars, resetVars, reqVars,
                loadVars, inlineVars, recordVars>>

\* click on a card or on its .btn-view-details, which no open modal covers:
\* openAccountDetail up to the await of loadAccountActivities(accountId),
\* whose request is sent
viewDetails(accountId) ==
    /\ ~detailOpen
    /\ \E i \in 1..Len(grid) : grid[i].id = accountId
    /\ Len(listCalls) < MaxListCalls
    /\ State_currentAccountId' = accountId
    /\ IF \E i \in 1..Len(State_accounts) : State_accounts[i].id = accountId
       THEN /\ detailRenewal' =
                  DetailRenewalClass(State_accounts[PositionOf(accountId)], today, tz)
            /\ detailDay' = today
            /\ detailOpen' = TRUE
            /\ listCalls' = Append(listCalls, accountId)
       ELSE UNCHANGED <<detailRenewal, detailDay, detailOpen, listCalls>>
    /\ UNCHANGED activitiesList
    /\ DetailFrame

\* click on the tab 'activities' of the open modal
activitiesTabClick ==
    /\ detailOpen
    /\ Len(listCalls) < MaxListCalls
    /\ listCalls' = Append(listCalls, State_currentAccountId)
    /\ UNCHANGED <<detailVars, detailOpen, activitiesList>>
    /\ DetailFrame

\* Modal.closeAll: close button, backdrop or Escape
closeAll ==
    /\ detailOpen
    /\ detailOpen' = FALSE
    /\ UNCHANGED <<detailVars, activitiesList, listCalls>>
    /\ DetailFrame

\* the rest of loadAccountActivities(accountId) once the request of its i-th
\* call is back: the rows of that account, or the failure text, are written
\* to #activities-list
activitiesReturn(i, outcome) ==
    /\ i \in 1..Len(listCalls)
    /\ activitiesList' = [account |-> listCalls[i], failed |-> outcome # "ok"]
    /\ listCalls' = SubSeq(listCalls, 1, i - 1) \o SubSeq(listCalls, i + 1, Len(listCalls))
    /\ UNCHANGED <<detailVars, detailOpen>>
    /\ DetailFrame

NextDetail ==
    \/ \E a \in Roster : viewDetails(a)
    \/ activitiesTabClick
    \/ closeAll
    \/ \E i \in 1..MaxListCalls, outcome \in Outcomes : activitiesReturn(i, outcome)

SpecDetail == InitQuick /\ [][NextDetail]_vars

\* C25: the content of the account detail modal belongs to the selected
\* account.  Once every loadAccountActivities request has come back, the
\* rows (or the failure text) in #activities-list are those of the request
\* made for State.currentAccountId.
C25_ListOfCurrentAccount ==
    listCalls = <<>> => activitiesList.account = State_currentAccountId

-----------------------------------------------------------------------------
(* SpecInline: the inline quick-log forms of the cards, the click and key   *)
(* handlers of #accounts-grid split where they await, in a zone that is or  *)
(* is not UTC                                                               *)

MaxPosts == 2

\* data-type of the .quick-log-btn buttons of a card the model clicks; the
\* button of type 'more' opens the Log Activity modal (openActivityModal)
QuickTypes == {"call", "email"}

\* what the user types into a .quick-log-input
InlineTexts == {<<" ">>, <<"c", " ">>}

\* getActivityTypeLabel
getActivityTypeLabel(type) ==
    CASE type = "call" -> "Call" [] type = "email" -> "Email"
      [] type = "meeting" -> "Meeting" [] type = "research" -> "Research"
      [] type = "event_invite" -> "Event Invite" [] type = "internal" -> "Internal"
      [] type = "other" -> "Other" [] OTHER -> type

\* the placeholder the quick-log button of a type puts into the input
Placeholder(type) == <<"Quick ", getActivityTypeLabel(type), " note...">>

\* String.prototype.trim over the alphabet of the model
trim(s) ==
    LET kept == {i \in 1..Len(s) : s[i] # " "}
    IN  IF kept = {} THEN NULL
        ELSE SubSeq(s, Min(kept), CHOOSE i \in kept : \A j \in kept : j <= i)

\* the inline forms renderAccounts has just written: hidden, empty, with the
\* placeholder of the template
FreshForms == [a \in Roster |-> NoInlineForm]

InitInline ==
    /\ today = 1
    /\ tz = NoDst
    /\ hour \in {h \in SampleHours : h > HoursPerDay \div 2}
    /\ utcOffset \in {off \in UtcOffsets : off <= 0}
    /\ activities = [p \in Slots |-> 0]
    /\ notes = [p \in Slots |-> 0]
    /\ snoozes = {}
    /\ records = [k \in RecordKinds |-> [a \in Roster |-> 0]]
    /\ State_filter \in {"untouched", "all"}
    /\ State_sortBy = "name"
    /\ State_accounts = RosterAccounts(today)
    /\ grid = GridCards(State_accounts, State_filter, State_sortBy, today, tz)
    /\ allDone = ShowAllDone(State_accounts, State_filter, State_sortBy)
    /\ gridDay = today
    /\ DetailClosed
    /\ lastActiveDate = NULL
    /\ activityDate = NULL
    /\ passDays = <<>>
    /\ FormsIdle
    /\ loads = <<>>
    /\ lastError = [n |-> 0, site |-> "", message |-> ""]
    /\ listError = <<>>
    /\ consoleError = <<>>
    /\ requestsSent = 0
    /\ syncBtnDisabled = FALSE
    /\ badge = [inDocument |-> TRUE, hidden |-> TRUE, text |-> 0]
    /\ syncPc = "idle"
    /\ statusPending = 0
    /\ unsynced = 0
    /\ page = "open"
    /\ newDayNotice = FALSE
    /\ response = NoResponse
    /\ result = NoResult
    /\ loading = FALSE
    /\ progress = NoProgress
    /\ inlineForms = FreshForms
    /\ State_quickLogAccountId = 0
    /\ State_quickLogType = ""
    /\ quickPosts = <<>>
    /\ detailOpen = FALSE
    /\ activitiesList = [account |-> 0, failed |-> FALSE]
    /\ listCalls = <<>>
    /\ recordForm = [k \in RecordKindsOfForms |-> NoForm]
    /\ editCalls = <<>>
    /\ recordRequests = <<>>

InlineFrame ==
    UNCHANGED <<detailVars, clockVars, wallVars, lastActiveDate, activityDate, passDays,
                activityModal, quickLog, loads, callVars, syncVars, resetVars, reqVars,
                loadVars, listVars, recordVars>>

\* the card of account a is in the grid
HasCard(a) == \E i \in 1..Len(grid) : grid[i].id = a

\* the card whose inline form is shown
ShownForms == {a \in Roster : inlineForms[a].shown}

\* click on a .quick-log-btn of the card of account a, of a type other than
\* 'more': every inline form is hidden, the one of this card is shown, and
\* account and type are stored in State
quickLogClick(a, type) ==
    /\ HasCard(a)
    /\ type # "more"
    /\ inlineForms' =
          [b \in Roster |->
              IF b = a
              THEN [inlineForms[b] EXCEPT !.shown = TRUE,
                                          !.placeholder = Placeholder(type)]
              ELSE [inlineForms[b] EXCEPT !.shown = FALSE]]
    /\ State_quickLogAccountId' = a
    /\ State_quickLogType' = type
    /\ UNCHANGED <<quickPosts, toast, renderVars, ledgerVars>>
    /\ InlineFrame

\* the user types into the input of the form that is shown
typeInline(a, text) ==
    /\ inlineForms[a].shown
    /\ inlineForms[a].text # text
    /\ inlineForms' = [inlineForms EXCEPT ![a].text = text]
    /\ UNCHANGED <<State_quickLogAccountId, State_quickLogType, quickPosts, toast,
                   renderVars, ledgerVars>>
    /\ InlineFrame

\* the request handleQuickLog(accountId, activityType, description) sends
QuickLogRequest(accountId, activityType, description) ==
    [accountId |-> accountId, type |-> activityType, description |-> description,
     date |-> getTodayStr(today, hour, utcOffset), stage |-> "sent", detached |-> FALSE]

\* click on .quick-log-submit of the form of account a, or Enter in its
\* input: with a description and a type handleQuickLog is called, which
\* sends POST /api/activities; the form stays as it is until that returns
submitInline(a) ==
    /\ inlineForms[a].shown
    /\ LET description == trim(inlineForms[a].text)
       IN  IF Truthy(description) /\ State_quickLogType # ""
           THEN /\ Len(quickPosts) < MaxPosts
                /\ quickPosts' = Append(quickPosts,
                                   QuickLogRequest(a, State_quickLogType, description))
           ELSE UNCHANGED quickPosts
    /\ UNCHANGED <<inlineForms, State_quickLogAccountId, State_quickLogType, toast,
                   renderVars, ledgerVars>>
    /\ InlineFrame

\* Escape in the input of the form that is shown
escapeInline(a) ==
    /\ inlineForms[a].shown
    /\ inlineForms' = [inlineForms EXCEPT ![a] = [@ EXCEPT !.shown = FALSE, !.text = NULL]]
    /\ UNCHANGED <<State_quickLogAccountId, State_quickLogType, quickPosts, toast,
                   renderVars, ledgerVars>>
    /\ InlineFrame

\* `inlineForm.classList.add('hidden'); input.value = ''` of the handler of
\* the i-th submission: the form it holds is the one of the document unless
\* the grid was rendered again since
FormsAfterHide(i) ==
    IF quickPosts[i].detached THEN inlineForms
    ELSE [inlineForms EXCEPT ![quickPosts[i].accountId] =
                                 [@ EXCEPT !.shown = FALSE, !.text = NULL]]

PostsWithout(i) == SubSeq(quickPosts, 1, i - 1) \o SubSeq(quickPosts, i + 1, Len(quickPosts))

\* the request of the i-th submission is back.  Success under filter
\* 'untouched' with the card in the grid: the timer is set, handleQuickLog
\* returns and the handler hides the form; success otherwise: the
\* notification, then loadAccounts is awaited; failure: handleQuickLog
\* catches, the handler hides the form.
postReturns(i, outcome) ==
    /\ i \in 1..Len(quickPosts)
    /\ quickPosts[i].stage = "sent"
    /\ IF outcome = "ok"
       THEN /\ LedgerSize < MaxEntries
            /\ activities' =
                  [activities EXCEPT
                      ![<<quickPosts[i].accountId, ParseDate(quickPosts[i].date)>>] = @ + 1]
            /\ IF State_filter = "untouched" /\ HasCard(quickPosts[i].accountId)
               THEN /\ quickPosts' = [quickPosts EXCEPT ![i].stage = "timer"]
                    /\ inlineForms' = FormsAfterHide(i)
                    /\ UNCHANGED toast
               ELSE /\ quickPosts' = [quickPosts EXCEPT ![i].stage = "reload"]
                    /\ toast' = <<getActivityTypeLabel(quickPosts[i].type), " logged">>
                    /\ UNCHANGED inlineForms
       ELSE /\ toast' = <<"Failed: ", outcome>>
            /\ inlineForms' = FormsAfterHide(i)
            /\ quickPosts' = PostsWithout(i)
            /\ UNCHANGED activities
    /\ UNCHANGED <<State_quickLogAccountId, State_quickLogType, renderVars, notes, snoozes,
                   records>>
    /\ InlineFrame

\* the 600 ms timer of the i-th submission fires: loadAccounts is called
quickTimerFires(i) ==
    /\ i \in 1..Len(quickPosts)
    /\ quickPosts[i].stage = "timer"
    /\ quickPosts' = [quickPosts EXCEPT ![i].stage = "timerload"]
    /\ UNCHANGED <<inlineForms, State_quickLogAccountId, State_quickLogType, toast,
                   renderVars, ledgerVars>>
    /\ InlineFrame

\* the loadAccounts call of the i-th submission returns.  On success the
\* grid is written again, every inline form with it, and the forms the
\* handlers under way hold are no longer in the document; on failure
\* loadAccounts shows its own notification.  Then the timer callback shows
\* its notification, or the handler hides the form.
reloadReturns(i, outcome) ==
    /\ i \in 1..Len(quickPosts)
    /\ quickPosts[i].stage \in {"reload", "timerload"}
    /\ InlineFrame
    /\ UNCHANGED <<State_quickLogAccountId, State_quickLogType, ledgerVars>>
    /\ IF outcome = "ok"
       THEN /\ loadAccounts
            /\ inlineForms' = FreshForms
            /\ quickPosts' = [k \in 1..(Len(quickPosts) - 1) |->
                                 [PostsWithout(i)[k] EXCEPT !.detached = TRUE]]
            /\ toast' = IF quickPosts[i].stage = "timerload"
                        THEN <<getActivityTypeLabel(quickPosts[i].type), " logged">>
                        ELSE toast
            /\ UNCHANGED <<State_filter, State_sortBy>>
       ELSE /\ inlineForms' = IF quickPosts[i].stage = "reload"
                              THEN FormsAfterHide(i) ELSE inlineForms
            /\ quickPosts' = PostsWithout(i)
            /\ toast' = IF quickPosts[i].stage = "timerload"
                        THEN <<getActivityTypeLabel(quickPosts[i].type), " logged">>
                        ELSE <<"Failed to load accounts: ", outcome>>
            /\ UNCHANGED renderVars

NextInline ==
    \/ \E a \in Roster, type \in QuickTypes : quickLogClick(a, type)
    \/ \E a \in Roster, text \in InlineTexts : typeInline(a, text)
    \/ \E a \in Roster : submitInline(a)
    \/ \E a \in Roster : escapeInline(a)
    \/ \E i \in 1..MaxPosts, outcome \in Outcomes : postReturns(i, outcome)
    \/ \E i \in 1..MaxPosts : quickTimerFires(i)
    \/ \E i \in 1..MaxPosts, outcome \in Outcomes : reloadReturns(i, outcome)

SpecInline == InitInline /\ [][NextInline]_vars

\* a request of the inline form of account a with description d is under way
InFlightFor(a, d) ==
    {i \in 1..Len(quickPosts) :
        /\ quickPosts[i].stage = "sent"
        /\ quickPosts[i].accountId = a
        /\ quickPosts[i].description = d}

\* C26: one quick-log entry creates at most one activity.  While the create
\* request of a submission is in flight, no second POST /api/activities for
\* the same form and text is sent.
C26_OnePostPerEntry ==
    \A a \in Roster, i \in 1..Len(quickPosts) :
        Cardinality(InFlightFor(a, quickPosts[i].description)) <= 1

\* the forms that are shown, and what State says about them
OneFormShown ==
    /\ Cardinality(ShownForms) <= 1
    /\ \A a \in ShownForms :
          /\ State_quickLogAccountId = a
          /\ inlineForms[a].placeholder = Placeholder(State_quickLogType)

\* a step that sends a quick-log request
Sends == Len(quickPosts') = Len(quickPosts) + 1

\* the request a step has sent
Sent == quickPosts'[Len(quickPosts')]

\* a step in which the form of account a is submitted with nothing but
\* white space in its input, or with no type in State
SubmitsNothing(a) ==
    /\ submitInline(a)
    /\ (~Truthy(trim(inlineForms[a].text)) \/ State_quickLogType = "")

\* account, type and description of every request sent, and no request for
\* an empty description or without a type
RequestOfShownForm ==
    /\ [][Sends =>
             /\ ShownForms = {Sent.accountId}
             /\ Sent.type = State_quickLogType
             /\ Placeholder(Sent.type) = inlineForms[Sent.accountId].placeholder
             /\ Sent.description = trim(inlineForms[Sent.accountId].text)
             /\ Truthy(Sent.description)
             /\ Sent.description[1] # " "
             /\ Sent.description[Len(Sent.description)] # " "]_vars
    /\ [][\A a \in Roster : SubmitsNothing(a) => UNCHANGED quickPosts]_vars

\* C28: at most one inline quick-log form is visible; the visible one belongs
\* to State.quickLogAccountId and State.quickLogType is the type of the
\* button that opened it; every quick-log request carries the account of the
\* visible form, the type of the button clicked last, a non-empty trimmed
\* description and today's date; no request is sent for an empty description
\* or without a type.
C28_QuickLogRequest ==
    /\ []OneFormShown
    /\ RequestOfShownForm
    /\ [][Sends => Sent.date = DateStr(today)]_vars

\* the same without the date: the forms shown, State and the other fields
\* of every request
QuickLogRequestButDate ==
    /\ []OneFormShown
    /\ RequestOfShownForm

-----------------------------------------------------------------------------
(* SpecRecord: the deal form and the contact form of the detail modal: Add, *)
(* Edit (which fills the form when its request is back), close and submit   *)

MaxEdits == 1

\* ids of the deals, and of the contacts, of every account
RecordIds == {1, 2}

RecordFrame ==
    UNCHANGED <<clockVars, ledgerVars, wallVars, lastActiveDate, activityDate, passDays,
                activityModal, quickLog, loads, callVars, syncVars, resetVars, reqVars,
                loadVars, inlineVars>>

FormOpen == \E k \in RecordKindsOfForms : recordForm[k].open

\* click on a card while no modal is open and the activities of the account
\* opened before have arrived: the detail modal of the account
openDetail(accountId) ==
    /\ ~FormOpen
    /\ listCalls = <<>>
    /\ viewDetails(accountId)

\* click on 'Add Deal' or 'Add Contact' of the detail modal
addClick(k) ==
    /\ detailOpen
    /\ \E i \in 1..Len(State_accounts) : State_accounts[i].id = State_currentAccountId
    /\ recordForm' = [recordForm EXCEPT ![k] =
                         [open |-> TRUE, id |-> 0, accountId |-> State_currentAccountId,
                          title |-> "Add", clicked |-> <<"add">>]]
    /\ detailOpen' = FALSE
    /\ UNCHANGED <<renderVars, detailVars, toast, activitiesList, listCalls, editCalls,
                   recordRequests>>
    /\ RecordFrame

\* click on the Edit button of record id in the deals or contacts list:
\* getDeals / getContacts of State.currentAccountId is requested
editClick(k, id) ==
    /\ detailOpen
    /\ Len(editCalls) < MaxEdits
    /\ editCalls' = Append(editCalls, [kind |-> k, id |-> id,
                                       accountId |-> State_currentAccountId])
    /\ recordForm' = [recordForm EXCEPT ![k].clicked = <<"edit", id>>]
    /\ UNCHANGED <<renderVars, detailVars, toast, detailOpen, activitiesList, listCalls,
                   recordRequests>>
    /\ RecordFrame

\* the request of the j-th Edit click is back: the record is put into the
\* form, its id into the hidden id field, and the modal of the form is
\* opened; a failed request shows a notification
editReturns(j, outcome) ==
    /\ j \in 1..Len(editCalls)
    /\ editCalls' = SubSeq(editCalls, 1, j - 1) \o SubSeq(editCalls, j + 1, Len(editCalls))
    /\ IF outcome = "ok"
       THEN /\ recordForm' = [recordForm EXCEPT ![editCalls[j].kind] =
                                 [@ EXCEPT !.open = TRUE, !.id = editCalls[j].id,
                                           !.accountId = editCalls[j].accountId,
                                           !.title = "Edit"]]
            /\ detailOpen' = FALSE
            /\ UNCHANGED toast
       ELSE /\ toast' = <<"Failed to load ", editCalls[j].kind>>
            /\ UNCHANGED <<recordForm, detailOpen>>
    /\ UNCHANGED <<renderVars, detailVars, activitiesList, listCalls, recordRequests>>
    /\ RecordFrame

\* Modal.closeAll while a form is open: close button, backdrop or Escape
closeForms ==
    /\ FormOpen
    /\ recordForm' = [k \in RecordKindsOfForms |-> [recordForm[k] EXCEPT !.open = FALSE]]
    /\ detailOpen' = FALSE
    /\ UNCHANGED <<renderVars, detailVars, toast, activitiesList, listCalls, editCalls,
                   recordRequests>>
    /\ RecordFrame

\* the request handleDealSubmit / handleContactSubmit sends: an update of the
\* record in the hidden id field, a create when that field is empty
SubmitRequest(k) ==
    [kind |-> k, method |-> IF recordForm[k].id # 0 THEN "update" ELSE "create",
     id |-> recordForm[k].id, clicked |-> recordForm[k].clicked]

\* `document.getElementById('deal-id').value = ''`
ClearId(id) == 0

\* submit of the form of kind k.  Success: notification, the modal is
\* closed, the form reset and its id field emptied, loadAccounts; failure:
\* the notification, the form stays as it is
submitRecord(k, outcome) ==
    /\ recordForm[k].open
    /\ recordRequests' = <<SubmitRequest(k)>>
    /\ RecordFrame
    /\ IF outcome = "ok"
       THEN /\ toast' = <<k, IF recordForm[k].id # 0 THEN " updated" ELSE " created">>
            /\ recordForm' = [recordForm EXCEPT ![k] =
                                 [@ EXCEPT !.open = FALSE, !.id = ClearId(@)]]
            /\ UNCHANGED <<State_filter, State_sortBy>>
            /\ loadAccounts
       ELSE /\ toast' = <<"Failed: ", outcome>>
            /\ UNCHANGED <<recordForm, renderVars>>
    /\ UNCHANGED <<detailVars, detailOpen, activitiesList, listCalls, editCalls>>

\* the forms are followed in the detail modal of one account
NextRecord ==
    \/ openDetail(Min(Roster))
    \/ \E i \in 1..MaxListCalls : activitiesReturn(i, "ok")
    \/ \E k \in RecordKindsOfForms : addClick(k)
    \/ \E k \in RecordKindsOfForms, id \in RecordIds : editClick(k, id)
    \/ \E j \in 1..MaxEdits, outcome \in Outcomes : editReturns(j, outcome)
    \/ closeForms
    \/ \E k \in RecordKindsOfForms, outcome \in Outcomes : submitRecord(k, outcome)

InitRecord == InitQuick /\ State_filter = "untouched"

SpecRecord == InitRecord /\ [][NextRecord]_vars

\* C29: submitting the deal (or contact) form sends an update of a record if
\* and only if the form was opened through the Edit button of that record,
\* and a create otherwise; a form opened through Add carries no record id.
C29_UpdateIffEdit ==
    /\ \A n \in 1..Len(recordRequests) :
          LET r == recordRequests[n]
          IN  /\ r.method = "update" <=> (Len(r.clicked) = 2 /\ r.clicked[1] = "edit")
              /\ r.method = "update" => r.clicked[2] = r.id
    /\ \A k \in RecordKindsOfForms :
          recordForm[k].open /\ recordForm[k].clicked = <<"add">> => recordForm[k].id = 0

\* the same with every Edit request back before the user clicks again
NextRecordInOrder ==
    \/ editCalls = <<>> /\ NextRecord
    \/ \E j \in 1..MaxEdits, outcome \in Outcomes : editReturns(j, outcome)

SpecRecordInOrder == InitRecord /\ [][NextRecordInOrder]_vars

\* without a click between an Edit click and its response, Add never carries
\* an id and an update is the update of the record whose Edit was clicked
UpdateIffEditInOrder == C29_UpdateIffEdit

-----------------------------------------------------------------------------
(* SpecProgress: the first loadAccounts call of the page, the server        *)
(* answering with any list of accounts, the empty one included; then filter *)
(* and sort                                                                 *)

InitProgress ==
    /\ State_accounts = <<>>
    /\ Init

\* the answer data.accounts = accounts reaches loadAccounts: State.accounts
\* is assigned, renderAccounts and updateProgress run, loadDashboard is
\* awaited
answerTaken(accounts) ==
    /\ Len(loads) = 1
    /\ loads[1].stage = "sent"
    /\ loads' = [loads EXCEPT ![1].stage = "dashboard"]
    /\ progress' = updateProgress(accounts)
    /\ UNCHANGED <<State_filter, State_sortBy, detailVars, ledgerVars, toast, listError,
                   consoleError, loading>>
    /\ AsyncFrame
    /\ renderAccounts(accounts, State_filter, State_sortBy)

NextProgress ==
    \/ CallLoadAccounts
    \/ \E accounts \in AccountLists : answerTaken(accounts)
    \/ \E i \in 1..Len(loads), message \in ErrorMessages : LoadFails(i, message)
    \/ \E i \in 1..Len(loads), outcome \in Outcomes : DashboardReturns(i, outcome)
    \/ \E f \in Filters : FilterClick(f)
    \/ \E k \in {"name", "touched"} : SortChange(k)

SpecProgress == InitProgress /\ [][NextProgress]_vars

\* the number a / b as a percentage equals the fraction w.num / w.den
IsPercentage(w, a, b) ==
    /\ w.den > 0
    /\ w.num * b = a * 100 * w.den

\* C30: the progress display counts over all accounts, whatever filter and
\* sort are: the touched count is the number of accounts of State.accounts
\* with touched_today, the total is the length of State.accounts,
\* 0 <= touched <= total, and the width of the bar is touched / total as a
\* percentage, 0% when there is no account.
C30_ProgressOverAll ==
    LET touched == Cardinality({i \in 1..Len(State_accounts) :
                                    State_accounts[i].touched_today})
        total == Len(State_accounts)
    IN  /\ progress.touched = touched
        /\ progress.total = total
        /\ 0 <= progress.touched
        /\ progress.touched <= progress.total
        /\ IF total = 0
           THEN progress.width.num = 0 /\ progress.width.den > 0
           ELSE IsPercentage(progress.width, touched, total)

\* updateProgress has run on a list of which one account is touched and the
\* others are not, and the user has chosen filter 'touched'
C30_Witness ==
    /\ loads = <<>>
    /\ State_filter = "touched"
    /\ Len(State_accounts) = MaxAccounts
    /\ Len(grid) = 1
    /\ progress.touched = 1
    /\ progress.total = MaxAccounts

\* updateProgress has run on the empty list: 0 of 0, width 0%
ProgressOfNone ==
    /\ Len(loads) = 1
    /\ loads[1].stage = "dashboard"
    /\ State_accounts = <<>>
    /\ progress = [touched |-> 0, total |-> 0, width |-> [num |-> 0, den |-> 1]]

====
